---- MODULE Spec2Model ----
(***************************************************************************)
(* State-machine model of the icon evolution pipeline hooks                *)
(* (src/src/hooks/useAnalysis.ts).  The file holds two versions of the     *)
(* useAnalysis hook: the entertainment-insights ("evolution") flow and the *)
(* legacy brief-based flow.  An application mounts exactly one of them, so *)
(* the variable flow, drawn in Init, says which hook this behaviour runs.  *)
(*                                                                         *)
(* Strings are sequences of one-character strings, so that trim() and the  *)
(* Play Store regular expression are computed, not assumed.                *)
(***************************************************************************)
EXTENDS Integers, Sequences, FiniteSets, TLC

VARIABLES
  flow,      \* "evolution" | "legacy": which version of the hook is mounted
  state,     \* the AnalysisState held by useState
  pending,   \* the api calls in flight, oldest first, with what their closures captured
  last,      \* observation of the last operation: its name and the onError/onSuccess it made
  crashed    \* TRUE once a state updater has thrown while React rendered

vars == <<flow, state, pending, last, crashed>>

\* ------------------------------------------------------------------ bounds
MaxPending == 2
MaxScreenshots == 1

\* ------------------------------------------------------------------ values
NULL == [tag |-> "null"]
UNDEFINED == [tag |-> "undefined"]

Whitespace == {" ", "\t", "\n"}

RECURSIVE TrimStart(_)
TrimStart(s) ==
  IF s = <<>> THEN s
  ELSE IF Head(s) \in Whitespace THEN TrimStart(Tail(s)) ELSE s

RECURSIVE TrimEnd(_)
TrimEnd(s) ==
  IF s = <<>> THEN s
  ELSE IF s[Len(s)] \in Whitespace THEN TrimEnd(SubSeq(s, 1, Len(s) - 1)) ELSE s

\* String.prototype.trim
Trim(s) == TrimEnd(TrimStart(s))

\* !s.trim(): the guard the hooks use for "empty or whitespace-only"
IsBlank(s) == Trim(s) = <<>>

\* the literal part of playStorePattern
PlayStoreLiteral ==
  <<"p","l","a","y",".","g","o","o","g","l","e",".","c","o","m","/",
    "s","t","o","r","e","/","a","p","p","s","/",
    "d","e","t","a","i","l","s","?","i","d","=">>

\* the character class [a-zA-Z0-9._]
PackageIdChars ==
  {"a","b","c","d","e","f","g","h","i","j","k","l","m","n","o","p","q","r","s",
   "t","u","v","w","x","y","z",
   "A","B","C","D","E","F","G","H","I","J","K","L","M","N","O","P","Q","R","S",
   "T","U","V","W","X","Y","Z",
   "0","1","2","3","4","5","6","7","8","9",".","_"}

\* the longest run of package-id characters of s starting at position i
RECURSIVE IdRun(_, _)
IdRun(s, i) ==
  IF i > Len(s) \/ s[i] \notin PackageIdChars THEN <<>>
  ELSE <<s[i]>> \o IdRun(s, i + 1)

\* positions where the pattern matches: the literal followed by at least one id character
PlayStoreMatches(s) ==
  {i \in 1..Len(s) :
     /\ i + Len(PlayStoreLiteral) <= Len(s)
     /\ SubSeq(s, i, i + Len(PlayStoreLiteral) - 1) = PlayStoreLiteral
     /\ s[i + Len(PlayStoreLiteral)] \in PackageIdChars}

\* appInput.match(playStorePattern) and the url rebuilt from group 1; NULL when no match
PlayStoreUrl(s) ==
  IF PlayStoreMatches(s) = {} THEN NULL
  ELSE LET i == CHOOSE k \in PlayStoreMatches(s) : \A j \in PlayStoreMatches(s) : k <= j
       IN [tag |-> "url",
           url |-> <<"h","t","t","p","s",":","/","/">> \o PlayStoreLiteral
                     \o IdRun(s, i + Len(PlayStoreLiteral))]

\* ------------------------------------------------------------------ inputs
\* a pasted link to a Play Store page
PlayStoreLink == <<"s",":","/","/">> \o PlayStoreLiteral \o <<"a",".","b","&","h","l">>

\* what the user can type into the main input
AppInputs ==
  { <<>>, <<" ">>, <<"h","i">>, PlayStoreLink, PlayStoreLiteral }

AppNames == { <<>>, <<" ">>, <<"A">> }
AppCategories == { <<>>, <<"G">> }
AppDescriptions == { <<>>, <<"\n">>, <<"d">> }

\* files the user can upload, after compressAndConvert
Files == { [data |-> "icon1", mimeType |-> "image/png"] }

\* trend identifiers the insights step can send
TrendSelections == { <<"anime-Demon Slayer">> }

\* what the user can type into the suggestion editor
EditedSuggestions == { <<" ">>, <<"u","p">> }

\* the optional free text of the customizer
CustomPrompts == { UNDEFINED }

\* ------------------------------------------------------------------ collaborator responses
\* bodies the entertainment-insights endpoint can answer with (status 200); a field the
\* body lacks reads as undefined on the client
IconAnalysisValue ==
  [coreSubject |-> "fox", appFunction |-> "browser", currentStyle |-> "flat",
   mustPreserve |-> <<"tail">>]

TrendsValue == [movies |-> <<>>, games |-> <<>>, anime |-> <<"Demon Slayer">>, aesthetics |-> <<>>]

FetchedIconValue == [data |-> "playstore1", mimeType |-> "image/png"]

InsightsResponses ==
  { [tag |-> "insights", iconAnalysis |-> IconAnalysisValue,
     entertainmentTrends |-> TrendsValue, fetchedIcon |-> FetchedIconValue],
    [tag |-> "insights", iconAnalysis |-> IconAnalysisValue,
     entertainmentTrends |-> TrendsValue, fetchedIcon |-> UNDEFINED],
    [tag |-> "insights", iconAnalysis |-> UNDEFINED,
     entertainmentTrends |-> TrendsValue, fetchedIcon |-> FetchedIconValue] }

\* bodies the evolution-suggestions endpoint can answer with (status 200)
SuggestionValue(direction) ==
  [evolutionDirection |-> direction, rationale |-> "r", keyElements |-> <<"glow">>]

SuggestionResponses ==
  { [suggestion |-> SuggestionValue(<<"g","o">>),
     functionGuard |-> [warning |-> "keep the tail", reason |-> "brand"],
     selectedTrendNames |-> <<"Demon Slayer">>],
    [suggestion |-> SuggestionValue(<<"g","o">>),
     functionGuard |-> UNDEFINED,
     selectedTrendNames |-> <<>>],
    [suggestion |-> UNDEFINED,
     functionGuard |-> [warning |-> "keep the tail", reason |-> "brand"],
     selectedTrendNames |-> <<>>] }

\* base64 image data the generate endpoint can answer with
GeneratedIcons == { [tag |-> "image", data |-> "generated1"] }

\* the message of a rejected api call (handleResponse's Error, or fetch's)
FailureMessages == { "Request failed with status 500" }

\* ------------------------------------------------------------------ evolution flow: state
EvolutionStatuses ==
  {"IDLE", "ANALYZING_ENTERTAINMENT", "INSIGHTS_REVIEW", "SUGGESTING",
   "CUSTOMIZATION", "GENERATING", "COMPLETE"}

defaultEvolutionInput ==
  [appIcon |-> "", appName |-> <<>>, appCategory |-> <<>>, appDescription |-> <<>>]

initialState ==
  [status |-> "IDLE",
   screenshots |-> <<>>,
   appInput |-> <<>>,
   evolutionInput |-> defaultEvolutionInput,
   entertainmentInsights |-> NULL,
   unifiedSuggestion |-> NULL,
   editedSuggestion |-> <<>>,
   selectedTrendNames |-> <<>>,
   functionGuard |-> NULL,
   selectedTrends |-> <<>>,
   generatedIcon |-> NULL]

\* what an operation reported: onError(error), onSuccess(success), and whether it
\* issued an api call
Observed(op, error, success, started) ==
  [op |-> op, error |-> error, success |-> success, started |-> started]

\* bookkeeping, not program state: a call in flight is superseded once the user
\* resets, navigates back or starts another stage call
Supersede(calls) == [i \in 1..Len(calls) |-> [calls[i] EXCEPT !.stale = TRUE]]

\* xs.filter((_, k) => k !== i - 1): xs without its i-th element
Without(xs, i) ==
  IF i \in 1..Len(xs)
  THEN [k \in 1..(Len(xs) - 1) |-> IF k < i THEN xs[k] ELSE xs[k + 1]]
  ELSE xs

Mounted(f) == flow = f /\ ~crashed

\* ------------------------------------------------------------------ evolution flow: inputs
setAppInput(input) ==
  /\ ~crashed
  /\ state' = [state EXCEPT !.appInput = input]
  /\ last' = Observed("setAppInput", "", "", FALSE)
  /\ UNCHANGED <<flow, pending, crashed>>

\* compressAndConvert either yields the file or throws
addScreenshot(file, ok) ==
  /\ Mounted("evolution")
  /\ Len(state.screenshots) < MaxScreenshots
  /\ IF ok
     THEN /\ state' = [state EXCEPT !.screenshots = Append(@, file),
                                    !.evolutionInput.appIcon = file.data]
          /\ last' = Observed("addScreenshot", "", "", FALSE)
     ELSE /\ state' = state
          /\ last' = Observed("addScreenshot", "Failed to process image", "", FALSE)
  /\ UNCHANGED <<flow, pending, crashed>>

removeScreenshot(index) ==
  /\ Mounted("evolution")
  /\ LET newScreenshots == Without(state.screenshots, index + 1)
     IN state' = [state EXCEPT !.screenshots = newScreenshots,
                               !.evolutionInput.appIcon =
                                  IF newScreenshots = <<>> THEN "" ELSE newScreenshots[1].data]
  /\ last' = Observed("removeScreenshot", "", "", FALSE)
  /\ UNCHANGED <<flow, pending, crashed>>

updateEvolutionInput(field, value) ==
  /\ Mounted("evolution")
  /\ state' = [state EXCEPT !.evolutionInput[field] = value]
  /\ last' = Observed("updateEvolutionInput", "", "", FALSE)
  /\ UNCHANGED <<flow, pending, crashed>>

setSelectedTrends(trends) ==
  /\ Mounted("evolution")
  /\ state' = [state EXCEPT !.selectedTrends = trends]
  /\ last' = Observed("setSelectedTrends", "", "", FALSE)
  /\ UNCHANGED <<flow, pending, crashed>>

\* an update that writes through to the stored suggestion
updateEditedSuggestionInPlace(value) ==
  /\ Mounted("evolution")
  /\ state' = [state EXCEPT !.editedSuggestion = value,
                            !.unifiedSuggestion =
                               IF @ = NULL THEN @ ELSE [@ EXCEPT !.evolutionDirection = value]]
  /\ last' = Observed("updateEditedSuggestion", "", "", FALSE)
  /\ UNCHANGED <<flow, pending, crashed>>

updateEditedSuggestion(value) ==
  /\ Mounted("evolution")
  /\ state' = [state EXCEPT !.editedSuggestion = value]
  /\ last' = Observed("updateEditedSuggestion", "", "", FALSE)
  /\ UNCHANGED <<flow, pending, crashed>>

\* a rollback that abandons the session: every failure lands in IDLE
RollbackToStart(kind) == "IDLE"

\* ------------------------------------------------------------------ evolution flow: stages
\* the status a failed stage call sets in its catch block
RollbackStatus(kind) ==
  CASE kind = "analysis" -> "IDLE"
    [] kind = "suggestion" -> "INSIGHTS_REVIEW"
    [] kind = "generation" -> "CUSTOMIZATION"

\* a manual-mode validation that lets a form without a category through
InputErrorIgnoringCategory(st) ==
  IF PlayStoreUrl(st.appInput) # NULL THEN ""
  ELSE IF Len(st.screenshots) > 0
  THEN IF IsBlank(st.evolutionInput.appName) THEN "Please enter the app name"
       ELSE IF IsBlank(st.evolutionInput.appDescription) /\ IsBlank(st.appInput)
       THEN "Please describe your app"
       ELSE ""
  ELSE "Please paste a Play Store URL or upload your app icon"

\* the message startEntertainmentAnalysis rejects its input with; "" when it accepts it
EntertainmentAnalysisInputError(st) ==
  IF PlayStoreUrl(st.appInput) # NULL THEN ""
  ELSE IF Len(st.screenshots) > 0
  THEN IF IsBlank(st.evolutionInput.appName) THEN "Please enter the app name"
       ELSE IF st.evolutionInput.appCategory = <<>> THEN "Please select the app category"
       ELSE IF IsBlank(st.evolutionInput.appDescription) /\ IsBlank(st.appInput)
       THEN "Please describe your app"
       ELSE ""
  ELSE "Please paste a Play Store URL or upload your app icon"

\* the call startEntertainmentAnalysis issues once the input is accepted: which branch
\* issued it decides how its continuation treats the result.  Request bodies are kept
\* only where a later step of the hook depends on what was sent.
EntertainmentAnalysisCall(st) ==
  [kind |-> "analysis", stale |-> FALSE,
   mode |-> IF PlayStoreUrl(st.appInput) # NULL THEN "url" ELSE "manual"]

startEntertainmentAnalysis ==
  /\ Mounted("evolution")
  /\ LET error == EntertainmentAnalysisInputError(state)
     IN IF error # ""
        THEN /\ last' = Observed("startEntertainmentAnalysis", error, "", FALSE)
             /\ UNCHANGED <<state, pending>>
        ELSE /\ Len(pending) < MaxPending
             /\ state' = [state EXCEPT !.status = "ANALYZING_ENTERTAINMENT"]
             /\ pending' = Append(Supersede(pending), EntertainmentAnalysisCall(state))
             /\ last' = Observed("startEntertainmentAnalysis", "", "", TRUE)
  /\ UNCHANGED <<flow, crashed>>

\* api.getEntertainmentInsights resolved with result
entertainmentAnalysisResolved(i, result) ==
  /\ Mounted("evolution")
  /\ i \in 1..Len(pending)
  /\ pending[i].kind = "analysis"
  /\ IF pending[i].mode = "url"
     THEN IF result.fetchedIcon = UNDEFINED
          THEN /\ state' = [state EXCEPT !.status = "IDLE"]
               /\ last' = Observed("entertainmentAnalysisResolved",
                                   "Play Store fetch succeeded but no icon data returned",
                                   "", FALSE)
          ELSE /\ state' = [state EXCEPT !.entertainmentInsights = result,
                                         !.screenshots = <<result.fetchedIcon>>,
                                         !.status = "INSIGHTS_REVIEW"]
               /\ last' = Observed("entertainmentAnalysisResolved", "",
                                   "Entertainment insights analyzed", FALSE)
     ELSE /\ state' = [state EXCEPT !.entertainmentInsights = result,
                                    !.status = "INSIGHTS_REVIEW"]
          /\ last' = Observed("entertainmentAnalysisResolved", "",
                              "Entertainment insights analyzed", FALSE)
  /\ pending' = Without(pending, i)
  /\ UNCHANGED <<flow, crashed>>

\* api.getEntertainmentInsights rejected
entertainmentAnalysisRejected(i, message) ==
  /\ Mounted("evolution")
  /\ i \in 1..Len(pending)
  /\ pending[i].kind = "analysis"
  /\ state' = [state EXCEPT !.status = RollbackStatus("analysis")]
  /\ last' = Observed("entertainmentAnalysisRejected", message, "", FALSE)
  /\ pending' = Without(pending, i)
  /\ UNCHANGED <<flow, crashed>>

startEvolutionSuggestions ==
  /\ Mounted("evolution")
  /\ IF state.entertainmentInsights = NULL
     THEN /\ last' = Observed("startEvolutionSuggestions",
                              "Entertainment insights required", "", FALSE)
          /\ UNCHANGED <<state, pending>>
     ELSE /\ Len(pending) < MaxPending
          /\ state' = [state EXCEPT !.status = "SUGGESTING"]
          /\ pending' = Append(Supersede(pending),
               [kind |-> "suggestion", stale |-> FALSE])
          /\ last' = Observed("startEvolutionSuggestions", "", "", TRUE)
  /\ UNCHANGED <<flow, crashed>>

\* api.getEvolutionSuggestionsV2 resolved with result.  The state updater reads
\* result.suggestion.evolutionDirection: without result.suggestion it throws inside
\* React (not inside the try), the render fails and the hook is unmounted; onSuccess
\* has already been called by then.
evolutionSuggestionsResolved(i, result) ==
  /\ Mounted("evolution")
  /\ i \in 1..Len(pending)
  /\ pending[i].kind = "suggestion"
  /\ IF result.suggestion = UNDEFINED
     THEN /\ crashed' = TRUE
          /\ state' = state
     ELSE /\ crashed' = crashed
          /\ state' = [state EXCEPT !.unifiedSuggestion = result.suggestion,
                                    !.editedSuggestion = result.suggestion.evolutionDirection,
                                    !.selectedTrendNames = result.selectedTrendNames,
                                    !.functionGuard = result.functionGuard,
                                    !.status = "CUSTOMIZATION"]
  /\ last' = Observed("evolutionSuggestionsResolved", "", "Evolution suggestion ready", FALSE)
  /\ pending' = Without(pending, i)
  /\ UNCHANGED flow

\* api.getEvolutionSuggestionsV2 rejected
evolutionSuggestionsRejected(i, message) ==
  /\ Mounted("evolution")
  /\ i \in 1..Len(pending)
  /\ pending[i].kind = "suggestion"
  /\ state' = [state EXCEPT !.status = RollbackStatus("suggestion")]
  /\ last' = Observed("evolutionSuggestionsRejected", message, "", FALSE)
  /\ pending' = Without(pending, i)
  /\ UNCHANGED <<flow, crashed>>

\* a direction check that forgets to trim: only the empty string is refused
GenerateEvolutionErrorUntrimmed(st) ==
  IF Len(st.screenshots) = 0 THEN "App icon required"
  ELSE IF st.editedSuggestion = <<>> THEN "Evolution direction is required"
  ELSE ""

\* the message generateEvolution rejects the state with; "" when it goes on
GenerateEvolutionError(st) ==
  IF Len(st.screenshots) = 0 THEN "App icon required"
  ELSE IF IsBlank(st.editedSuggestion) THEN "Evolution direction is required"
  ELSE ""

\* entertainmentInsights?.iconAnalysis
IconAnalysisOf(st) ==
  IF st.entertainmentInsights = NULL THEN UNDEFINED
  ELSE st.entertainmentInsights.iconAnalysis

\* functionGuard?.warning ? entertainmentInsights?.iconAnalysis?.mustPreserve : undefined
FunctionGuardArr(st) ==
  IF st.functionGuard \in {NULL, UNDEFINED} THEN UNDEFINED
  ELSE IF st.functionGuard.warning = "" THEN UNDEFINED
  ELSE IF IconAnalysisOf(st) = UNDEFINED THEN UNDEFINED
  ELSE IconAnalysisOf(st).mustPreserve

generateEvolution(customPrompt) ==
  /\ Mounted("evolution")
  /\ LET error == GenerateEvolutionError(state)
     IN IF error # ""
        THEN /\ last' = Observed("generateEvolution", error, "", FALSE)
             /\ UNCHANGED <<state, pending>>
        ELSE /\ Len(pending) < MaxPending
             /\ state' = [state EXCEPT !.status = "GENERATING"]
             /\ pending' = Append(Supersede(pending),
                  [kind |-> "generation", stale |-> FALSE,
                   args |-> [referenceImage |-> state.screenshots[1],
                             evolutionDirection |-> state.editedSuggestion,
                             iconAnalysis |-> IconAnalysisOf(state),
                             functionGuard |-> FunctionGuardArr(state),
                             customPrompt |-> customPrompt]])
             /\ last' = Observed("generateEvolution", "", "", TRUE)
  /\ UNCHANGED <<flow, crashed>>

\* api.generateFromUnifiedSuggestion resolved with result
generateEvolutionResolved(i, result) ==
  /\ Mounted("evolution")
  /\ i \in 1..Len(pending)
  /\ pending[i].kind = "generation"
  /\ state' = [state EXCEPT !.generatedIcon = result, !.status = "COMPLETE"]
  /\ last' = Observed("generateEvolutionResolved", "", "Icon evolution generated", FALSE)
  /\ pending' = Without(pending, i)
  /\ UNCHANGED <<flow, crashed>>

\* api.generateFromUnifiedSuggestion rejected
\* a catch block that reports the failure and leaves the status as it is
generateEvolutionRejectedKeepsStatus(i, message) ==
  /\ Mounted("evolution")
  /\ i \in 1..Len(pending)
  /\ pending[i].kind = "generation"
  /\ state' = state
  /\ last' = Observed("generateEvolutionRejected", message, "", FALSE)
  /\ pending' = Without(pending, i)
  /\ UNCHANGED <<flow, crashed>>

generateEvolutionRejected(i, message) ==
  /\ Mounted("evolution")
  /\ i \in 1..Len(pending)
  /\ pending[i].kind = "generation"
  /\ state' = [state EXCEPT !.status = RollbackStatus("generation")]
  /\ last' = Observed("generateEvolutionRejected", message, "", FALSE)
  /\ pending' = Without(pending, i)
  /\ UNCHANGED <<flow, crashed>>

\* a whitelist that also lets the user skip forward from the insights
allowedTransitionsWithSkip(status) ==
  CASE status = "CUSTOMIZATION" -> {"INSIGHTS_REVIEW", "IDLE"}
    [] status = "INSIGHTS_REVIEW" -> {"IDLE", "CUSTOMIZATION"}
    [] OTHER -> {}

\* the whitelist of backward navigations
allowedTransitions(status) ==
  CASE status = "CUSTOMIZATION" -> {"INSIGHTS_REVIEW", "IDLE"}
    [] status = "INSIGHTS_REVIEW" -> {"IDLE"}
    [] OTHER -> {}

goToStep(targetStep) ==
  /\ Mounted("evolution")
  /\ IF targetStep \in allowedTransitions(state.status)
     THEN /\ state' = [state EXCEPT !.status = targetStep]
          /\ pending' = Supersede(pending)
     ELSE UNCHANGED <<state, pending>>
  /\ last' = Observed("goToStep", "", "", FALSE)
  /\ UNCHANGED <<flow, crashed>>

\* the step of the progress bar that the status shows as current
getCurrentStep(status) ==
  CASE status = "ANALYZING_ENTERTAINMENT" -> 0
    [] status = "INSIGHTS_REVIEW" -> 1
    [] status = "SUGGESTING" -> 1
    [] status = "CUSTOMIZATION" -> 2
    [] status = "GENERATING" -> 3
    [] status = "COMPLETE" -> 3
    [] OTHER -> 0

\* the status a click on step index asks for; "null" when the step has none
getStepTargetStatus(index) ==
  CASE index = 1 -> "INSIGHTS_REVIEW"
    [] index = 2 -> "CUSTOMIZATION"
    [] OTHER -> "null"

\* a click on a step of the progress bar: only completed steps are clickable
handleStepClick(index) ==
  /\ getCurrentStep(state.status) > index
  /\ getStepTargetStatus(index) # "null"
  /\ goToStep(getStepTargetStatus(index))

reset ==
  /\ Mounted("evolution")
  /\ state' = initialState
  /\ pending' = Supersede(pending)
  /\ last' = Observed("reset", "", "", FALSE)
  /\ UNCHANGED <<flow, crashed>>

\* SuggestionEditor's "reset to suggested": onUpdate(suggestion.evolutionDirection)
handleReset ==
  /\ Mounted("evolution")
  /\ state.unifiedSuggestion # NULL
  /\ state' = [state EXCEPT !.editedSuggestion = state.unifiedSuggestion.evolutionDirection]
  /\ last' = Observed("handleReset", "", "", FALSE)
  /\ UNCHANGED <<flow, pending, crashed>>

\* the stage operations of the evolution hook and the answers of its calls
StageNext ==
  \/ \E trends \in TrendSelections : setSelectedTrends(trends)
  \/ \E value \in EditedSuggestions : updateEditedSuggestion(value)
  \/ handleReset
  \/ startEntertainmentAnalysis
  \/ \E i \in 1..MaxPending, result \in InsightsResponses : entertainmentAnalysisResolved(i, result)
  \/ \E i \in 1..MaxPending, message \in FailureMessages : entertainmentAnalysisRejected(i, message)
  \/ startEvolutionSuggestions
  \/ \E i \in 1..MaxPending, result \in SuggestionResponses : evolutionSuggestionsResolved(i, result)
  \/ \E i \in 1..MaxPending, message \in FailureMessages : evolutionSuggestionsRejected(i, message)
  \/ \E customPrompt \in CustomPrompts : generateEvolution(customPrompt)
  \/ \E i \in 1..MaxPending, result \in GeneratedIcons : generateEvolutionResolved(i, result)
  \/ \E i \in 1..MaxPending, message \in FailureMessages : generateEvolutionRejected(i, message)
  \/ \E targetStep \in EvolutionStatuses : goToStep(targetStep)
  \/ \E index \in 0..3 : handleStepClick(index)
  \/ reset

\* the evolution pipeline of a user who works from a Play Store link or an uploaded icon
EvolutionNext ==
  \/ flow = "evolution" /\ setAppInput(PlayStoreLink)
  \/ \E file \in Files : addScreenshot(file, TRUE)
  \/ removeScreenshot(0)
  \/ StageNext

\* the first stage of the evolution hook with everything the user can enter
FormNext ==
  \/ \E input \in AppInputs : flow = "evolution" /\ setAppInput(input)
  \/ \E file \in Files, ok \in BOOLEAN : addScreenshot(file, ok)
  \/ \E index \in 0..MaxScreenshots : removeScreenshot(index)
  \/ \E value \in AppNames : updateEvolutionInput("appName", value)
  \/ \E value \in AppCategories : updateEvolutionInput("appCategory", value)
  \/ \E value \in AppDescriptions : updateEvolutionInput("appDescription", value)
  \/ startEntertainmentAnalysis
  \/ \E i \in 1..MaxPending, result \in InsightsResponses : entertainmentAnalysisResolved(i, result)
  \/ \E i \in 1..MaxPending, message \in FailureMessages : entertainmentAnalysisRejected(i, message)
  \/ reset

\* ------------------------------------------------------------------ legacy flow: state
LegacyStatuses ==
  {"IDLE", "ANALYZING", "ANALYSIS_REVIEW", "SYNTHESIZING", "TRENDS_REVIEW",
   "BRIEFING", "BRIEFS_REVIEW", "COMPLETE"}

\* a brief's generatedImage when the field is absent
NoImage == "undefined"

\* data urls api.generateIcon can resolve with
ImageUrls == {"data:image/png;base64,AAAA", "data:image/png;base64,BBBB"}

\* what the endpoints of the legacy flow can answer with
AnalysisResults == { [tag |-> "analysis", vertical |-> "games", demographics |-> "teens"] }
TrendSyntheses == { [tag |-> "trends", visualTrends |-> <<"neon">>] }
BriefLists ==
  { << [id |-> "b1", generatedImage |-> NoImage],
       [id |-> "b2", generatedImage |-> NoImage] >> }

\* the ids the user can act on; "b9" names no brief.  A brief's prompt only travels
\* in request bodies, so the field and updateBriefPrompt, which writes nothing else,
\* are left out.
BriefIds == {"b1", "b2", "b9"}
LegacyAppInputs == { <<" ">>, <<"h","i">> }

legacyInitialState ==
  [status |-> "IDLE",
   analysis |-> NULL,
   trends |-> NULL,
   briefs |-> <<>>,
   screenshots |-> <<>>,
   appInput |-> <<>>,
   isExecutingAll |-> FALSE]

\* no executeAll loop awaits this call
NoRun == [id |-> 0]

\* prev.briefs.map(b => b.id === briefId ? f(b) : b), f setting generatedImage
SetImage(briefs, briefId, image) ==
  [k \in 1..Len(briefs) |->
     IF briefs[k].id = briefId THEN [briefs[k] EXCEPT !.generatedImage = image]
     ELSE briefs[k]]

\* state.briefs.find(b => b.id === briefId), as the index of the brief; 0 when none
FindBrief(briefs, briefId) ==
  IF \E k \in 1..Len(briefs) : briefs[k].id = briefId
  THEN CHOOSE k \in 1..Len(briefs) :
         /\ briefs[k].id = briefId
         /\ \A j \in 1..(k - 1) : briefs[j].id # briefId
  ELSE 0

\* ------------------------------------------------------------------ legacy flow: stages
legacy_addScreenshot(file) ==
  /\ Mounted("legacy")
  /\ Len(state.screenshots) < MaxScreenshots
  /\ state' = [state EXCEPT !.screenshots = Append(@, file)]
  /\ last' = Observed("addScreenshot", "", "", FALSE)
  /\ UNCHANGED <<flow, pending, crashed>>

legacy_removeScreenshot(index) ==
  /\ Mounted("legacy")
  /\ state' = [state EXCEPT !.screenshots = Without(@, index + 1)]
  /\ last' = Observed("removeScreenshot", "", "", FALSE)
  /\ UNCHANGED <<flow, pending, crashed>>

\* the status a failed stage call of the legacy flow sets in its catch block
LegacyRollbackStatus(kind) ==
  CASE kind = "analysis" -> "IDLE"
    [] kind = "trends" -> "ANALYSIS_REVIEW"
    [] kind = "briefs" -> "TRENDS_REVIEW"

\* a stage of the legacy flow starts: busy status, one call
LegacyStart(op, busy, kind) ==
  /\ Len(pending) < MaxPending
  /\ state' = [state EXCEPT !.status = busy]
  /\ pending' = Append(pending, [kind |-> kind, run |-> NoRun])
  /\ last' = Observed(op, "", "", TRUE)

LegacyRefuse(op, error) ==
  /\ last' = Observed(op, error, "", FALSE)
  /\ UNCHANGED <<state, pending>>

startAnalysis ==
  /\ Mounted("legacy")
  /\ IF IsBlank(state.appInput) /\ Len(state.screenshots) = 0
     THEN LegacyRefuse("startAnalysis", "Please enter a description or upload screenshots")
     ELSE LegacyStart("startAnalysis", "ANALYZING", "analysis")
  /\ UNCHANGED <<flow, crashed>>

startTrends ==
  /\ Mounted("legacy")
  /\ IF state.analysis = NULL
     THEN LegacyRefuse("startTrends", "Analysis required before trends")
     ELSE LegacyStart("startTrends", "SYNTHESIZING", "trends")
  /\ UNCHANGED <<flow, crashed>>

startBriefing ==
  /\ Mounted("legacy")
  /\ IF state.analysis = NULL \/ state.trends = NULL
     THEN LegacyRefuse("startBriefing", "Analysis and trends required before briefing")
     ELSE LegacyStart("startBriefing", "BRIEFING", "briefs")
  /\ UNCHANGED <<flow, crashed>>

\* the stage call pending[i] resolved with result
legacyStageResolved(i, kind, result) ==
  /\ Mounted("legacy")
  /\ i \in 1..Len(pending)
  /\ pending[i].kind = kind
  /\ CASE kind = "analysis" ->
            /\ state' = [state EXCEPT !.analysis = result, !.status = "ANALYSIS_REVIEW"]
            /\ last' = Observed("analysisResolved", "", "Analysis complete", FALSE)
       [] kind = "trends" ->
            /\ state' = [state EXCEPT !.trends = result, !.status = "TRENDS_REVIEW"]
            /\ last' = Observed("trendsResolved", "", "Trend synthesis complete", FALSE)
       [] kind = "briefs" ->
            /\ state' = [state EXCEPT !.briefs = result, !.status = "BRIEFS_REVIEW"]
            /\ last' = Observed("briefsResolved", "", "Creative briefs generated", FALSE)
  /\ pending' = Without(pending, i)
  /\ UNCHANGED <<flow, crashed>>

\* the stage call pending[i] rejected
legacyStageRejected(i, kind, message) ==
  /\ Mounted("legacy")
  /\ i \in 1..Len(pending)
  /\ pending[i].kind = kind
  /\ kind \in {"analysis", "trends", "briefs"}
  /\ state' = [state EXCEPT !.status = LegacyRollbackStatus(kind)]
  /\ last' = Observed(kind \o "Rejected", message, "", FALSE)
  /\ pending' = Without(pending, i)
  /\ UNCHANGED <<flow, crashed>>

legacy_reset ==
  /\ Mounted("legacy")
  /\ state' = legacyInitialState
  /\ pending' = pending
  /\ last' = Observed("reset", "", "", FALSE)
  /\ UNCHANGED <<flow, crashed>>

\* ------------------------------------------------------------------ legacy flow: images
\* !brief.generatedImage: the brief has no image and is not loading one
NeedsImage(brief) == brief.generatedImage = NoImage

\* a loop that does not await: every remaining brief that needs an image at once
ExecuteAllFanOut(briefs, after) ==
  LET eligible == {k \in (after + 1)..Len(briefs) : NeedsImage(briefs[k])}
      RECURSIVE Ascending(_)
      Ascending(ks) ==
        IF ks = {} THEN <<>>
        ELSE LET k == CHOOSE x \in ks : \A y \in ks : x <= y
             IN <<k>> \o Ascending(ks \ {k})
  IN Ascending(eligible)

\* the positions of briefs, after position `after`, whose calls executeAll's loop
\* issues before it awaits again: the next brief that needs an image, if any
ExecuteAllBatch(briefs, after) ==
  LET eligible == {k \in (after + 1)..Len(briefs) : NeedsImage(briefs[k])}
  IN IF eligible = {} THEN <<>>
     ELSE <<CHOOSE k \in eligible : \A j \in eligible : k <= j>>

\* an id no loop in flight uses (the model's name for an executeAll invocation)
FreshRun == CHOOSE n \in 1..(MaxPending + 1) : \A i \in 1..Len(pending) : pending[i].run.id # n

ImageCall(op, briefId, previousImage, run) ==
  [kind |-> "image", op |-> op, briefId |-> briefId,
   previousImage |-> previousImage, run |-> run]

\* generateImage as executeAll's closure calls it, for each position of batch: the
\* brief is looked up in the closure's briefs, marked LOADING in the current state,
\* and its call is issued
RECURSIVE IssueBatch(_, _, _, _)
IssueBatch(briefs, calls, run, batch) ==
  IF batch = <<>> THEN [briefs |-> briefs, calls |-> calls]
  ELSE LET briefId == run.briefs[Head(batch)].id
       IN IssueBatch(SetImage(briefs, briefId, "LOADING"),
                     Append(calls,
                            ImageCall("generateImage", briefId, NoImage,
                                      [run EXCEPT !.at = Head(batch),
                                                  !.issued = Append(@, briefId)])),
                     [run EXCEPT !.at = Head(batch), !.issued = Append(@, briefId)],
                     Tail(batch))

\* executeAll's loop resumes after an await (run.at = 0: it starts): it issues its next
\* batch, or, with nothing left, clears isExecutingAll and reports success
ContinueAll(op, error, success, st, calls, run) ==
  LET batch == ExecuteAllBatch(run.briefs, run.at)
      out == IssueBatch(st.briefs, calls, run, batch)
  IN IF batch = <<>>
     THEN /\ state' = [st EXCEPT !.isExecutingAll = FALSE]
          /\ pending' = calls
          /\ last' = Observed(op, error, "All images rendered", FALSE)
     ELSE /\ state' = [st EXCEPT !.briefs = out.briefs]
          /\ pending' = out.calls
          /\ last' = Observed(op, error, success, TRUE)

generateImage(briefId) ==
  /\ Mounted("legacy")
  /\ IF FindBrief(state.briefs, briefId) = 0
     THEN /\ last' = Observed("generateImage", "", "", FALSE)
          /\ UNCHANGED <<state, pending>>
     ELSE /\ Len(pending) < MaxPending
          /\ state' = [state EXCEPT !.briefs = SetImage(@, briefId, "LOADING")]
          /\ pending' = Append(pending, ImageCall("generateImage", briefId, NoImage, NoRun))
          /\ last' = Observed("generateImage", "", "", TRUE)
  /\ UNCHANGED <<flow, crashed>>

regenerateImage(briefId) ==
  /\ Mounted("legacy")
  /\ LET found == FindBrief(state.briefs, briefId)
     IN IF found = 0
        THEN /\ last' = Observed("regenerateImage", "", "", FALSE)
             /\ UNCHANGED <<state, pending>>
        ELSE /\ Len(pending) < MaxPending
             /\ state' = [state EXCEPT !.briefs = SetImage(@, briefId, "LOADING")]
             /\ pending' = Append(pending,
                  ImageCall("regenerateImage", briefId,
                            state.briefs[found].generatedImage, NoRun))
             /\ last' = Observed("regenerateImage", "", "", TRUE)
  /\ UNCHANGED <<flow, crashed>>

\* api.generateIcon resolved with imageUrl for the call pending[i]
imageResolved(i, imageUrl) ==
  /\ Mounted("legacy")
  /\ i \in 1..Len(pending)
  /\ pending[i].kind = "image"
  /\ LET call == pending[i]
         st == [state EXCEPT !.briefs = SetImage(@, call.briefId, imageUrl)]
         success == IF call.op = "regenerateImage" THEN "Image regenerated" ELSE ""
     IN IF call.run = NoRun
        THEN /\ state' = st
             /\ pending' = Without(pending, i)
             /\ last' = Observed("imageResolved", "", success, FALSE)
        ELSE ContinueAll("imageResolved", "", success, st, Without(pending, i), call.run)
  /\ UNCHANGED <<flow, crashed>>

\* the briefs after the catch block of the call: generateImage clears a LOADING mark,
\* regenerateImage writes back the image it read before it started
AfterImageFailure(briefs, call) ==
  IF call.op = "regenerateImage"
  THEN SetImage(briefs, call.briefId, call.previousImage)
  ELSE [k \in 1..Len(briefs) |->
          IF briefs[k].id = call.briefId /\ briefs[k].generatedImage = "LOADING"
          THEN [briefs[k] EXCEPT !.generatedImage = NoImage]
          ELSE briefs[k]]

\* a failure that ends executeAll's loop where it stands
imageRejectedStopsRun(i, message) ==
  /\ Mounted("legacy")
  /\ i \in 1..Len(pending)
  /\ pending[i].kind = "image"
  /\ state' = [state EXCEPT !.briefs = AfterImageFailure(@, pending[i])]
  /\ pending' = Without(pending, i)
  /\ last' = Observed("imageRejected", "Render Error: " \o message, "", FALSE)
  /\ UNCHANGED <<flow, crashed>>

\* api.generateIcon rejected for the call pending[i]
imageRejected(i, message) ==
  /\ Mounted("legacy")
  /\ i \in 1..Len(pending)
  /\ pending[i].kind = "image"
  /\ LET call == pending[i]
         st == [state EXCEPT !.briefs = AfterImageFailure(@, call)]
         error == "Render Error: " \o message
     IN IF call.run = NoRun
        THEN /\ state' = st
             /\ pending' = Without(pending, i)
             /\ last' = Observed("imageRejected", error, "", FALSE)
        ELSE ContinueAll("imageRejected", error, "", st, Without(pending, i), call.run)
  /\ UNCHANGED <<flow, crashed>>

executeAll ==
  /\ Mounted("legacy")
  /\ IF state.isExecutingAll
     THEN /\ last' = Observed("executeAll", "", "", FALSE)
          /\ UNCHANGED <<state, pending>>
     ELSE /\ Len(pending) < MaxPending
          /\ ContinueAll("executeAll", "", "",
                         [state EXCEPT !.isExecutingAll = TRUE], pending,
                         [id |-> FreshRun, briefs |-> state.briefs, at |-> 0, issued |-> <<>>])
  /\ UNCHANGED <<flow, crashed>>

\* the stage operations of the legacy hook and the answers of their calls
LegacyStageNext ==
  \/ startAnalysis
  \/ startTrends
  \/ startBriefing
  \/ \E i \in 1..MaxPending, result \in AnalysisResults : legacyStageResolved(i, "analysis", result)
  \/ \E i \in 1..MaxPending, result \in TrendSyntheses : legacyStageResolved(i, "trends", result)
  \/ \E i \in 1..MaxPending, result \in BriefLists : legacyStageResolved(i, "briefs", result)
  \/ \E i \in 1..MaxPending, kind \in {"analysis", "trends", "briefs"},
        message \in FailureMessages : legacyStageRejected(i, kind, message)
  \/ legacy_reset

\* the legacy pipeline up to its briefs
LegacyNext ==
  \/ \E input \in LegacyAppInputs : flow = "legacy" /\ setAppInput(input)
  \/ \E file \in Files : legacy_addScreenshot(file)
  \/ legacy_removeScreenshot(0)
  \/ LegacyStageNext

\* the legacy pipeline of a user who describes the app and renders the briefs' images
BriefsNext ==
  \/ flow = "legacy" /\ setAppInput(<<"h","i">>)
  \/ LegacyStageNext
  \/ \E briefId \in BriefIds : generateImage(briefId)
  \/ \E briefId \in BriefIds : regenerateImage(briefId)
  \/ \E i \in 1..MaxPending, imageUrl \in ImageUrls : imageResolved(i, imageUrl)
  \/ \E i \in 1..MaxPending, message \in FailureMessages : imageRejected(i, message)
  \/ executeAll

InitFlow(f, initial) ==
  /\ flow = f
  /\ state = initial
  /\ pending = <<>>
  /\ last = Observed("mount", "", "", FALSE)
  /\ crashed = FALSE

Init == InitFlow("evolution", initialState) \/ InitFlow("legacy", legacyInitialState)

Next == EvolutionNext \/ LegacyNext

\* both pipelines, stage by stage
Spec == Init /\ [][Next]_vars

\* the evolution hook's input form and first stage
SpecForm == InitFlow("evolution", initialState) /\ [][FormNext]_vars

\* the legacy hook with its image rendering
SpecBriefs == InitFlow("legacy", legacyInitialState) /\ [][BriefsNext]_vars

\* the liveness of a run does not depend on which image a call answers with:
\* one image keeps the fair behaviours few enough to check
FairImageUrls == {"data:image/png;base64,AAAA"}

\* the legacy hook with its image rendering, every render answering with the one image
BriefsFairNext ==
  \/ flow = "legacy" /\ setAppInput(<<"h","i">>)
  \/ LegacyStageNext
  \/ \E briefId \in BriefIds : generateImage(briefId)
  \/ \E briefId \in BriefIds : regenerateImage(briefId)
  \/ \E i \in 1..MaxPending, imageUrl \in FairImageUrls : imageResolved(i, imageUrl)
  \/ \E i \in 1..MaxPending, message \in FailureMessages : imageRejected(i, message)
  \/ executeAll

\* the oldest call in flight settles: resolves or rejects
SettleOldest ==
  \/ \E imageUrl \in FairImageUrls : imageResolved(1, imageUrl)
  \/ \E message \in FailureMessages : imageRejected(1, message)
  \/ \E result \in AnalysisResults : legacyStageResolved(1, "analysis", result)
  \/ \E result \in TrendSyntheses : legacyStageResolved(1, "trends", result)
  \/ \E result \in BriefLists : legacyStageResolved(1, "briefs", result)
  \/ \E kind \in {"analysis", "trends", "briefs"}, message \in FailureMessages :
       legacyStageRejected(1, kind, message)

\* the legacy hook with its image rendering, every call of which settles in the end
SpecBriefsFair ==
  InitFlow("legacy", legacyInitialState) /\ [][BriefsFairNext]_vars /\ WF_vars(SettleOldest)

\* ------------------------------------------------------------------ claims
OnlyWhitespace(s) == \A k \in 1..Len(s) : s[k] \in Whitespace

\* C1: when a stage call fails, the status becomes the review state just before that
\* stage (IDLE only for the first stage) and every other field of the state, the stored
\* stage outputs included, is left as it was; in both pipelines.
FailedStageRollsBackOneStep ==
  [][/\ (flow = "evolution" /\ last'.op = "entertainmentAnalysisRejected")
          => state' = [state EXCEPT !.status = "IDLE"]
     /\ (flow = "evolution" /\ last'.op = "entertainmentAnalysisResolved" /\ last'.error # "")
          => state' = [state EXCEPT !.status = "IDLE"]
     /\ (flow = "evolution" /\ last'.op = "evolutionSuggestionsRejected")
          => state' = [state EXCEPT !.status = "INSIGHTS_REVIEW"]
     /\ (flow = "evolution" /\ last'.op = "generateEvolutionRejected")
          => state' = [state EXCEPT !.status = "CUSTOMIZATION"]
     /\ (flow = "legacy" /\ last'.op = "analysisRejected")
          => state' = [state EXCEPT !.status = "IDLE"]
     /\ (flow = "legacy" /\ last'.op = "trendsRejected")
          => state' = [state EXCEPT !.status = "ANALYSIS_REVIEW"]
     /\ (flow = "legacy" /\ last'.op = "briefsRejected")
          => state' = [state EXCEPT !.status = "TRENDS_REVIEW"]]_vars

\* Scenario D: the generation call has failed, the pipeline is back in CUSTOMIZATION and
\* the analysis and the suggestion are still there
GenerationFailedBackInCustomization ==
  /\ flow = "evolution"
  /\ last.op = "generateEvolutionRejected"
  /\ state.status = "CUSTOMIZATION"
  /\ state.entertainmentInsights # NULL
  /\ state.unifiedSuggestion # NULL

\* C2: at most one stage call of the evolution pipeline is in flight at any time (a
\* forward action invoked while one is pending starts no second call).
AtMostOneStageCallInFlight ==
  flow = "evolution" => Len(pending) <= 1

\* C3: the answer of a call started before a reset, a backward navigation or a retry is
\* discarded: when it arrives, no field of the state changes.
StaleResponseIsDiscarded ==
  [][(/\ flow = "evolution"
      /\ Len(pending') < Len(pending)
      /\ \A i \in 1..Len(pending) : pending[i].stale)
       => state' = state]_vars

StageRank(status) ==
  CASE status = "IDLE" -> 0
    [] status = "ANALYZING_ENTERTAINMENT" -> 1
    [] status = "INSIGHTS_REVIEW" -> 2
    [] status = "SUGGESTING" -> 3
    [] status = "CUSTOMIZATION" -> 4
    [] status = "GENERATING" -> 5
    [] status = "COMPLETE" -> 6

\* C4: the status advances to INSIGHTS_REVIEW, CUSTOMIZATION or COMPLETE only when that
\* stage's call succeeds and the preceding stage's output is stored; a suggestion call
\* starts only with insights stored, a generation call only with insights and suggestion.
ForwardOnlyFromStoredUpstream ==
  [][flow = "evolution" =>
       /\ (StageRank(state'.status) > StageRank(state.status) /\ state'.status = "INSIGHTS_REVIEW")
            => (last'.op = "entertainmentAnalysisResolved" /\ last'.error = "")
       /\ (StageRank(state'.status) > StageRank(state.status) /\ state'.status = "CUSTOMIZATION")
            => /\ last'.op = "evolutionSuggestionsResolved"
               /\ state'.entertainmentInsights # NULL
       /\ (StageRank(state'.status) > StageRank(state.status) /\ state'.status = "COMPLETE")
            => /\ last'.op = "generateEvolutionResolved"
               /\ state'.unifiedSuggestion # NULL
       /\ (last'.op = "startEvolutionSuggestions" /\ last'.started)
            => state.entertainmentInsights # NULL
       /\ (last'.op = "generateEvolution" /\ last'.started)
            => /\ state.entertainmentInsights # NULL
               /\ state.unifiedSuggestion # NULL]_vars

\* C5: generateEvolution with an empty or whitespace-only editedSuggestion reports an
\* error, issues no call and changes nothing; GENERATING is entered only with a direction
\* that is not blank.
BlankDirectionIsRefused ==
  [][flow = "evolution" =>
       /\ (last'.op = "generateEvolution" /\ OnlyWhitespace(state.editedSuggestion))
            => /\ last'.error # ""
               /\ ~last'.started
               /\ pending' = pending
               /\ state' = state
       /\ (state'.status = "GENERATING" /\ state.status # "GENERATING")
            => ~OnlyWhitespace(state'.editedSuggestion)]_vars

\* generateEvolution has just refused a whitespace-only direction although an icon is there
WhitespaceDirectionRefused ==
  /\ flow = "evolution"
  /\ last.op = "generateEvolution"
  /\ last.error = "Evolution direction is required"
  /\ state.editedSuggestion = <<" ">>
  /\ state.status = "CUSTOMIZATION"

\* C6: the current review state has its data: INSIGHTS_REVIEW implies insights are
\* stored, CUSTOMIZATION implies a suggestion is stored.
ReviewStateHasItsData ==
  flow = "evolution" =>
    /\ state.status = "INSIGHTS_REVIEW" => state.entertainmentInsights # NULL
    /\ state.status = "CUSTOMIZATION" => state.unifiedSuggestion # NULL

InvalidAnalysisInput(st) ==
  /\ PlayStoreUrl(st.appInput) = NULL
  /\ \/ Len(st.screenshots) = 0
     \/ OnlyWhitespace(st.evolutionInput.appName)
     \/ st.evolutionInput.appCategory = <<>>
     \/ OnlyWhitespace(st.evolutionInput.appDescription) /\ OnlyWhitespace(st.appInput)

\* C8: startEntertainmentAnalysis on invalid input reports an error, issues no call and
\* leaves the whole state, status included, as it was.
InvalidInputHasNoEffect ==
  [][(flow = "evolution" /\ last'.op = "startEntertainmentAnalysis"
        /\ InvalidAnalysisInput(state))
       => /\ last'.error # ""
          /\ ~last'.started
          /\ pending' = pending
          /\ state' = state]_vars

\* startEntertainmentAnalysis has just refused a form with icon and name but no category,
\* while an earlier analysis is still shown
MissingCategoryRefused ==
  /\ flow = "evolution"
  /\ last.op = "startEntertainmentAnalysis"
  /\ last.error = "Please select the app category"
  /\ state.status = "INSIGHTS_REVIEW"
  /\ Len(state.screenshots) > 0
  /\ state.evolutionInput.appName = <<"A">>

\* C9: a response that lacks a required field of its stage's schema is a failed attempt:
\* nothing of it is stored.
SchemaInvalidResponseNeverStored ==
  flow = "evolution" =>
    /\ state.entertainmentInsights # NULL =>
         /\ state.entertainmentInsights.iconAnalysis # UNDEFINED
         /\ state.entertainmentInsights.entertainmentTrends # UNDEFINED
    /\ state.unifiedSuggestion # UNDEFINED
    /\ state.functionGuard # UNDEFINED
    /\ ~crashed

\* the ids of the briefs of a snapshot, up to position upto, that had no image
AwaitingIds(briefs, upto) ==
  LET awaiting == SelectSeq(SubSeq(briefs, 1, upto), LAMBDA b : b.generatedImage = NoImage)
  IN [k \in 1..Len(awaiting) |-> awaiting[k].id]

\* one invocation of executeAll has at most one call in flight, and the calls it has
\* issued so far are those of the briefs without image, in brief order
ExecuteAllOneAtATimeInOrder ==
  \A i \in 1..Len(pending) :
    (pending[i].kind = "image" /\ pending[i].run # NoRun) =>
      /\ \A j \in 1..Len(pending) :
           (j # i /\ pending[j].kind = "image") => pending[j].run.id # pending[i].run.id
      /\ pending[i].run.issued = AwaitingIds(pending[i].run.briefs, pending[i].run.at)
      /\ pending[i].briefId = pending[i].run.briefs[pending[i].run.at].id

\* C10: executeAll issues its image calls one at a time, in brief order, never as a
\* parallel fan-out; invoked while isExecutingAll is true it starts no call.
ExecuteAllIsSequentialAndExclusive ==
  /\ [](flow = "legacy" => ExecuteAllOneAtATimeInOrder)
  /\ [][(flow = "legacy" /\ last'.op = "executeAll" /\ state.isExecutingAll)
          => pending' = pending /\ state' = state]_vars

\* executeAll is on its second brief, after the first one's call came back, and a second
\* invocation has just been turned away
SecondCallIssuedAndReentryRefused ==
  /\ flow = "legacy"
  /\ state.isExecutingAll
  /\ last.op = "executeAll"
  /\ ~last.started
  /\ \E i \in 1..Len(pending) :
       /\ pending[i].kind = "image"
       /\ pending[i].run # NoRun
       /\ Len(pending[i].run.issued) = 2

\* ================================================================== api handlers
\* The serverless handlers under api/ run one request at a time here.  With flow =
\* "lookup" the variable state is the request being served: which handler, how far it
\* has got, how many Play Store lookups and generative calls it has made, its response.

MAX_INPUT_LENGTH == 2000

\* JSON values of a request body: a string is tagged with its characters, an array with
\* its items; a field the body lacks is UNDEFINED
Str(chars) == [tag |-> "string", chars |-> chars]
Arr(items) == [tag |-> "array", items |-> items]

\* s.replace(/[<>]/g, '')
\* a replace without the g flag: only the first < or > goes
StripFirstAngle(s) ==
  IF \A k \in 1..Len(s) : s[k] \notin {"<", ">"} THEN s
  ELSE LET first == CHOOSE k \in 1..Len(s) :
                      s[k] \in {"<", ">"} /\ \A j \in 1..(k - 1) : s[j] \notin {"<", ">"}
       IN SubSeq(s, 1, first - 1) \o SubSeq(s, first + 1, Len(s))

StripAngles(s) == SelectSeq(s, LAMBDA c : c \notin {"<", ">"})

\* the same steps with the characters removed before the cut
sanitizeInputStripFirst(input, maxLength) ==
  IF input.tag # "string" THEN <<>>
  ELSE LET stripped == StripAngles(Trim(input.chars))
       IN SubSeq(stripped, 1, IF Len(stripped) < maxLength THEN Len(stripped) ELSE maxLength)

\* sanitizeInput: '' for anything that is not a non-empty string, else trimmed, cut to
\* maxLength, and with < and > removed
sanitizeInput(input, maxLength) ==
  IF input.tag # "string" THEN <<>>
  ELSE LET trimmed == Trim(input.chars)
       IN StripAngles(SubSeq(trimmed, 1, IF Len(trimmed) < maxLength THEN Len(trimmed)
                                                                  ELSE maxLength))

\* detectPlayStoreUrl: the first match of the pattern and its capture group
detectPlayStoreUrl(input) ==
  IF PlayStoreMatches(input) = {} THEN [isPlayStore |-> FALSE]
  ELSE LET i == CHOOSE k \in PlayStoreMatches(input) : \A j \in PlayStoreMatches(input) : k <= j
       IN [isPlayStore |-> TRUE, packageId |-> IdRun(input, i + Len(PlayStoreLiteral))]

Methods == {"POST", "GET"}

\* request bodies of POST /api/entertainment-insights
InsightsBodies ==
  [playStoreUrl : {UNDEFINED, Str(PlayStoreLink), Str(<<"h","i">>)},
   appIcon : {UNDEFINED, Str(<<"i","c","o","n">>)},
   appName : {UNDEFINED, Str(<<"A">>)},
   appCategory : {Str(<<" ">>), Str(<<"G">>)},
   appDescription : {Str(<<>>), Str(<<"d">>)}]

\* request bodies of POST /api/analyze
AnalyzeBodies ==
  [input : {UNDEFINED, Str(<<"h","i">>), Str(PlayStoreLink)},
   screenshots : {UNDEFINED, Arr(<<>>), Arr(<<[data |-> "icon1", mimeType |-> "image/png"]>>)}]

\* request bodies of POST /api/fetch-icon
FetchIconBodies == [packageId : {UNDEFINED, Str(<<"a",".","b">>)}]

\* how gplay.app or the icon download can fail; the second is the 5 s abort
LookupFailures == {"App not found", "This operation was aborted"}

GenerativeFailures == {"Model overloaded"}

idleServer ==
  [handler |-> "none", phase |-> "idle", body |-> NULL, lookups |-> 0,
   generations |-> 0, playStoreIcon |-> NULL, response |-> NULL]

\* res.status(status).json(...)
Respond(st, status, error) ==
  [st EXCEPT !.phase = "done", !.response = [status |-> status, error |-> error]]

\* a request arrives at handler: the method and api-key checks every handler but
\* fetch-icon starts with (fetch-icon checks the method only)
Accept(handler, method, hasKey, body) ==
  LET st == [idleServer EXCEPT !.handler = handler, !.body = body]
  IN IF method # "POST" THEN Respond(st, 405, "Method not allowed")
     ELSE IF ~hasKey /\ handler # "fetch-icon" THEN Respond(st, 500, "Server configuration error")
     ELSE st

\* the handler goes on to await gplay.app({ appId: packageId })
StartLookup(st, op, packageId) ==
  /\ state' = [st EXCEPT !.phase = "lookup", !.lookups = @ + 1]
  /\ pending' = <<[kind |-> "gplay.app", packageId |-> packageId]>>
  /\ last' = Observed(op, "", "", TRUE)

\* the handler goes on to await ai.models.generateContent(...)
StartGeneration(st, op) ==
  /\ state' = [st EXCEPT !.phase = "generate", !.generations = @ + 1]
  /\ pending' = <<[kind |-> "generateContent"]>>
  /\ last' = Observed(op, "", "", TRUE)

\* the handler returns a response without awaiting anything further
Finish(st, op) ==
  /\ state' = st
  /\ pending' = <<>>
  /\ last' = Observed(op, IF st.response.status >= 400 THEN st.response.error ELSE "", "", FALSE)

\* manual-mode validation of /api/entertainment-insights; "" when the body passes
InsightsBodyError(body) ==
  IF body.appIcon = UNDEFINED THEN "appIcon is required (base64) or provide playStoreUrl"
  ELSE IF sanitizeInput(body.appName, MAX_INPUT_LENGTH) = <<>> THEN "appName is required"
  ELSE IF sanitizeInput(body.appCategory, MAX_INPUT_LENGTH) = <<>> THEN "appCategory is required"
  ELSE IF sanitizeInput(body.appDescription, MAX_INPUT_LENGTH) = <<>> THEN "appDescription is required"
  ELSE ""

entertainmentInsightsHandler(method, hasKey, body) ==
  /\ Mounted("lookup")
  /\ state.phase \in {"idle", "done"}
  /\ LET st == Accept("entertainment-insights", method, hasKey, body)
         detection == IF body.playStoreUrl = UNDEFINED \/ body.playStoreUrl.chars = <<>>
                      THEN [isPlayStore |-> FALSE]
                      ELSE detectPlayStoreUrl(body.playStoreUrl.chars)
     IN IF st.phase = "done" THEN Finish(st, "entertainmentInsightsHandler")
        ELSE IF detection.isPlayStore
        THEN StartLookup(st, "entertainmentInsightsHandler", detection.packageId)
        ELSE IF InsightsBodyError(body) # ""
        THEN Finish(Respond(st, 400, InsightsBodyError(body)), "entertainmentInsightsHandler")
        ELSE StartGeneration(st, "entertainmentInsightsHandler")
  /\ UNCHANGED <<flow, crashed>>

analyzeHandler(method, hasKey, body) ==
  /\ Mounted("lookup")
  /\ state.phase \in {"idle", "done"}
  /\ LET st == Accept("analyze", method, hasKey, body)
         input == sanitizeInput(body.input, MAX_INPUT_LENGTH)
         detection == detectPlayStoreUrl(input)
     IN IF st.phase = "done" THEN Finish(st, "analyzeHandler")
        ELSE IF input = <<>> /\ (body.screenshots = UNDEFINED \/ body.screenshots.items = <<>>)
        THEN Finish(Respond(st, 400, "Input or screenshots required"), "analyzeHandler")
        ELSE IF detection.isPlayStore
        THEN StartLookup(st, "analyzeHandler", detection.packageId)
        ELSE StartGeneration(st, "analyzeHandler")
  /\ UNCHANGED <<flow, crashed>>

fetchIconHandler(method, body) ==
  /\ Mounted("lookup")
  /\ state.phase \in {"idle", "done"}
  /\ LET st == Accept("fetch-icon", method, TRUE, body)
     IN IF st.phase = "done" THEN Finish(st, "fetchIconHandler")
        ELSE IF body.packageId = UNDEFINED
        THEN Finish(Respond(st, 400, "packageId required"), "fetchIconHandler")
        ELSE StartLookup(st, "fetchIconHandler", body.packageId.chars)
  /\ UNCHANGED <<flow, crashed>>

\* gplay.app resolved: the handler downloads app.icon under the 5 s abort timer
lookupAppResolved ==
  /\ Mounted("lookup")
  /\ pending # <<>> /\ pending[1].kind = "gplay.app"
  /\ pending' = <<[kind |-> "fetch icon", packageId |-> pending[1].packageId]>>
  /\ last' = Observed("lookupAppResolved", "", "", TRUE)
  /\ UNCHANGED <<flow, state, crashed>>

\* the icon arrived: fetch-icon answers with it, the other two go on to the model
lookupIconResolved ==
  /\ Mounted("lookup")
  /\ pending # <<>> /\ pending[1].kind = "fetch icon"
  /\ LET st == [state EXCEPT !.playStoreIcon = [data |-> "fetched", mimeType |-> "image/png"]]
     IN IF state.handler = "fetch-icon"
        THEN Finish(Respond(st, 200, ""), "lookupIconResolved")
        ELSE StartGeneration(st, "lookupIconResolved")
  /\ UNCHANGED <<flow, crashed>>

\* what each handler's catch around the lookup does with the error
AfterLookupFailure(handler, message) ==
  CASE handler = "entertainment-insights" ->
         [respond |-> TRUE, status |-> 400, error |-> "Play Store fetch failed: " \o message]
    [] handler = "fetch-icon" ->
         [respond |-> TRUE, status |-> 500,
          error |-> IF message = "This operation was aborted"
                    THEN "Request timeout while fetching icon"
                    ELSE "Failed to fetch icon from Play Store"]
    [] handler = "analyze" -> [respond |-> FALSE]

\* gplay.app or the icon download threw, or the timer aborted the download
lookupFailed(message) ==
  /\ Mounted("lookup")
  /\ pending # <<>> /\ pending[1].kind \in {"gplay.app", "fetch icon"}
  /\ message = "This operation was aborted" => pending[1].kind = "fetch icon"
  /\ LET after == AfterLookupFailure(state.handler, message)
     IN IF after.respond
        THEN Finish(Respond(state, after.status, after.error), "lookupFailed")
        ELSE StartGeneration(state, "lookupFailed")
  /\ UNCHANGED <<flow, crashed>>

generateContentResolved ==
  /\ flow \in {"lookup", "suggest", "prompt", "briefsApi"} /\ ~crashed
  /\ pending # <<>> /\ pending[1].kind = "generateContent"
  /\ Finish(Respond(state, 200, ""), "generateContentResolved")
  /\ UNCHANGED <<flow, crashed>>

generateContentRejected(message) ==
  /\ flow \in {"lookup", "suggest", "prompt", "briefsApi"} /\ ~crashed
  /\ pending # <<>> /\ pending[1].kind = "generateContent"
  /\ Finish(Respond(state, 500, message), "generateContentRejected")
  /\ UNCHANGED <<flow, crashed>>

LookupNext ==
  \/ \E method \in Methods, hasKey \in BOOLEAN, body \in InsightsBodies :
       entertainmentInsightsHandler(method, hasKey, body)
  \/ \E method \in Methods, hasKey \in BOOLEAN, body \in AnalyzeBodies :
       analyzeHandler(method, hasKey, body)
  \/ \E method \in Methods, body \in FetchIconBodies : fetchIconHandler(method, body)
  \/ lookupAppResolved
  \/ lookupIconResolved
  \/ \E message \in LookupFailures : lookupFailed(message)
  \/ generateContentResolved
  \/ \E message \in GenerativeFailures : generateContentRejected(message)

SpecLookup == InitFlow("lookup", idleServer) /\ [][LookupNext]_vars

\* C11: when the Play Store lookup fails or times out, the handler makes no second
\* lookup, answers with an error response, and makes no call to the generative service.
FailedLookupEndsTheRequest ==
  [][(flow = "lookup" /\ last'.op = "lookupFailed") =>
       /\ state'.response # NULL
       /\ state'.response.status >= 400
       /\ state'.lookups = state.lookups
       /\ state'.generations = 0
       /\ pending' = <<>>]_vars

\* ================================================================== /api/evolution-suggestions
\* With flow = "suggest" the variable state is the request the evolution-suggestions
\* handler is serving: its body, what filterTrendsBySelection returned, the kind of
\* instruction it built, and its response.

MAX_STRING_LENGTH == 500
MaxSelection == 3

UpperCase == <<"A","B","C","D","E","F","G","H","I","J","K","L","M","N","O","P","Q","R","S",
               "T","U","V","W","X","Y","Z">>
LowerCase == <<"a","b","c","d","e","f","g","h","i","j","k","l","m","n","o","p","q","r","s",
               "t","u","v","w","x","y","z">>

\* String.prototype.toLowerCase
toLowerCase(s) ==
  [k \in 1..Len(s) |->
     IF \E i \in 1..26 : UpperCase[i] = s[k]
     THEN LowerCase[CHOOSE i \in 1..26 : UpperCase[i] = s[k]]
     ELSE s[k]]

\* the categories in the order the function walks them, with the prefix of their
\* identifiers and the heading of their block
TrendCategories == <<"movies", "games", "anime", "aesthetics">>

TrendPrefix(category) ==
  CASE category = "movies" -> <<"m","o","v","i","e","-">>
    [] category = "games" -> <<"g","a","m","e","-">>
    [] category = "anime" -> <<"a","n","i","m","e","-">>
    [] category = "aesthetics" -> <<"a","e","s","t","h","e","t","i","c","-">>

\* m.title for movies, games and anime; a.name for aesthetics
TrendName(category, item) == IF category = "aesthetics" THEN item.name ELSE item.title

\* ---- requests
Movie(title) == [title |-> title, relevance |-> <<"r">>, visualElements |-> << <<"v">> >>]
Aesthetic(name) == [name |-> name, description |-> <<"<","d",">">>, examples |-> << <<"e">> >>]

\* corpora the insights stage can have produced: titles that differ only in case, a
\* title shared by two categories, a title that sanitizing changes, empty categories
Corpora ==
  [movies : { <<>>, <<Movie(<<"K","o">>), Movie(<<"D","s">>)>> },
   games : { <<>>, <<Movie(<<"K","o">>)>> },
   anime : { <<>>, <<Movie(<<"D","s">>), Movie(<<"d","s">>)>>,
             <<Movie(<<" ","A","b">>), Movie(<<"D","s">>)>> },
   aesthetics : { <<>>, <<Aesthetic(<<"Y","2">>)>> }]

\* entries a selection list can hold: identifiers of corpus items in either case, an
\* identifier of no item, and a number
SelectionEntries ==
  { Str(<<"m","o","v","i","e","-","K","o">>),
    Str(<<"a","n","i","m","e","-","D","s">>),
    Str(<<"A","N","I","M","E","-","D","S">>),
    Str(<<"a","e","s","t","h","e","t","i","c","-","Y","2">>),
    Str(<<"a","n","i","m","e","-","z","z">>),
    [tag |-> "number"] }

RECURSIVE SeqsUpTo(_, _)
SeqsUpTo(S, n) ==
  IF n = 0 THEN { <<>> }
  ELSE LET shorter == SeqsUpTo(S, n - 1)
       IN shorter \cup { Append(xs, x) : xs \in shorter, x \in S }

Selections == SeqsUpTo(SelectionEntries, MaxSelection)

ValidIconAnalysis ==
  [coreSubject |-> <<"c","a","t">>, appFunction |-> <<"f">>, currentStyle |-> <<"3","D">>,
   mustPreserve |-> << <<"e","a","r","s">> >>]

\* ---- filterTrendsBySelection
\* an identifier set that forgets all but the first entry
FirstSelected(selectedTrends) == { toLowerCase(selectedTrends[1].chars) }

\* new Set(selectedTrends.map(t => t.toLowerCase()))
SelectedSet(selectedTrends) ==
  { toLowerCase(selectedTrends[k].chars) : k \in 1..Len(selectedTrends) }

\* an item counts as selected whatever its category, by its bare name
TrendMatchesByName(category, item, selectedSet) ==
  \E id \in selectedSet :
    \E k \in 0..Len(id) : SubSeq(id, k + 1, Len(id)) = toLowerCase(TrendName(category, item))

\* selectedSet.has(`${prefix}${name}`.toLowerCase())
TrendMatches(category, item, selectedSet) ==
  toLowerCase(TrendPrefix(category) \o TrendName(category, item)) \in selectedSet

\* one "- name: text / elements" entry of a block, as the template renders it
TrendLine(category, item) ==
  IF category = "aesthetics"
  THEN [name |-> sanitizeInput(Str(item.name), MAX_STRING_LENGTH),
        text |-> sanitizeInput(Str(item.description), MAX_STRING_LENGTH),
        elements |-> [k \in 1..Len(item.examples) |->
                        sanitizeInput(Str(item.examples[k]), MAX_STRING_LENGTH)]]
  ELSE [name |-> sanitizeInput(Str(item.title), MAX_STRING_LENGTH),
        text |-> sanitizeInput(Str(item.relevance), MAX_STRING_LENGTH),
        elements |-> [k \in 1..Len(item.visualElements) |->
                        sanitizeInput(Str(item.visualElements[k]), MAX_STRING_LENGTH)]]

\* a block for every category, empty ones too
SectionAlways(category, selected) ==
  << [category |-> category,
      lines |-> [k \in 1..Len(selected) |-> TrendLine(category, selected[k])]] >>

\* if (selected.length > 0) sections.push(heading + lines): zero or one block
Section(category, selected) ==
  IF Len(selected) > 0
  THEN << [category |-> category,
           lines |-> [k \in 1..Len(selected) |-> TrendLine(category, selected[k])]] >>
  ELSE <<>>

\* the function: filteredContext is the list of blocks that sections.join('\n\n') glues
\* together (no block: the empty string); threw says t.toLowerCase() raised a TypeError
RECURSIVE FilterFrom(_, _, _)
FilterFrom(trends, selectedSet, c) ==
  IF c > Len(TrendCategories) THEN [filteredContext |-> <<>>, selectedNames |-> <<>>]
  ELSE LET category == TrendCategories[c]
           selected == SelectSeq(trends[category],
                                 LAMBDA item : TrendMatches(category, item, selectedSet))
           rest == FilterFrom(trends, selectedSet, c + 1)
       IN [filteredContext |-> Section(category, selected) \o rest.filteredContext,
           selectedNames |-> [k \in 1..Len(selected) |-> TrendName(category, selected[k])]
                               \o rest.selectedNames]

filterTrendsBySelection(trends, selectedTrends) ==
  IF Len(selectedTrends) = 0
  THEN [threw |-> FALSE, filteredContext |-> <<>>, selectedNames |-> <<>>]
  ELSE IF \E k \in 1..Len(selectedTrends) : selectedTrends[k].tag # "string"
  THEN [threw |-> TRUE, filteredContext |-> <<>>, selectedNames |-> <<>>]
  ELSE LET out == FilterFrom(trends, SelectedSet(selectedTrends), 1)
       IN [threw |-> FALSE, filteredContext |-> out.filteredContext,
           selectedNames |-> out.selectedNames]

\* ---- handler
SuggestionBodies ==
  [iconAnalysis : {UNDEFINED, ValidIconAnalysis},
   entertainmentTrends : {UNDEFINED} \cup Corpora,
   selectedTrends : {UNDEFINED} \cup { Arr(sel) : sel \in Selections }]

receivedSuggestionRequest(body) ==
  [handler |-> "evolution-suggestions", phase |-> "received", body |-> body,
   generations |-> 0, filtered |-> NULL, prompt |-> NULL, response |-> NULL]

\* an instruction that is trend-guided whatever was matched
hasSelectionAlways(selectedNames) == TRUE

\* const hasSelection = selectedNames.length > 0
hasSelection(selectedNames) == Len(selectedNames) > 0

\* which of the two templates the handler fills, and the context it puts in
SuggestionPrompt(filtered) ==
  IF hasSelection(filtered.selectedNames)
  THEN [kind |-> "trend-guided", context |-> filtered.filteredContext]
  ELSE [kind |-> "generic", context |-> <<>>]

evolutionSuggestionsHandler(method, hasKey) ==
  /\ Mounted("suggest")
  /\ state.phase = "received"
  /\ LET body == state.body
         selectedTrends == IF body.selectedTrends = UNDEFINED THEN <<>>
                           ELSE body.selectedTrends.items
         filtered == filterTrendsBySelection(body.entertainmentTrends, selectedTrends)
         op == "evolutionSuggestionsHandler"
     IN IF method # "POST" THEN Finish(Respond(state, 405, "Method not allowed"), op)
        ELSE IF ~hasKey THEN Finish(Respond(state, 500, "Server configuration error"), op)
        ELSE IF body.iconAnalysis = UNDEFINED
        THEN Finish(Respond(state, 400, "Invalid or missing iconAnalysis"), op)
        ELSE IF body.entertainmentTrends = UNDEFINED
        THEN Finish(Respond(state, 400, "Invalid or missing entertainmentTrends"), op)
        ELSE IF filtered.threw
        THEN Finish(Respond([state EXCEPT !.filtered = filtered], 500,
                            "t.toLowerCase is not a function"), op)
        ELSE StartGeneration([state EXCEPT !.filtered = filtered,
                                           !.prompt = SuggestionPrompt(filtered)], op)
  /\ UNCHANGED <<flow, crashed>>

SuggestNext ==
  \/ \E method \in Methods, hasKey \in BOOLEAN : evolutionSuggestionsHandler(method, hasKey)
  \/ generateContentResolved
  \/ \E message \in GenerativeFailures : generateContentRejected(message)

SpecSuggest ==
  /\ \E body \in SuggestionBodies : InitFlow("suggest", receivedSuggestionRequest(body))
  /\ [][SuggestNext]_vars

\* ------------------------------------------------------------------ claims on the filter
\* the selection list of the request being served
RequestSelection ==
  IF state.body.selectedTrends = UNDEFINED THEN <<>> ELSE state.body.selectedTrends.items

Filtered == flow = "suggest" /\ state.filtered # NULL /\ ~state.filtered.threw

\* the identifiers of the selection, lower-cased (entries that are not strings have none)
SelectionIds ==
  { toLowerCase(RequestSelection[k].chars) :
      k \in {j \in 1..Len(RequestSelection) : RequestSelection[j].tag = "string"} }

\* the items of a category whose prefixed identifier is in the selection, in corpus order
ChosenItems(category) ==
  SelectSeq(state.body.entertainmentTrends[category],
            LAMBDA item : toLowerCase(TrendPrefix(category) \o TrendName(category, item))
                            \in SelectionIds)

\* C12: every item in the filtered context or in the matched-names list has its
\* category-prefixed identifier, compared case-insensitively, in the selection list.
OnlySelectedItemsIncluded ==
  Filtered =>
    /\ \A b \in 1..Len(state.filtered.filteredContext) :
         LET block == state.filtered.filteredContext[b]
         IN \A k \in 1..Len(block.lines) :
              \E i \in 1..Len(ChosenItems(block.category)) :
                TrendLine(block.category, ChosenItems(block.category)[i]) = block.lines[k]
    /\ \A n \in 1..Len(state.filtered.selectedNames) :
         \E category \in {"movies", "games", "anime", "aesthetics"} :
           \E i \in 1..Len(ChosenItems(category)) :
             TrendName(category, ChosenItems(category)[i]) = state.filtered.selectedNames[n]

\* "anime-Ds" is selected in a corpus that also has a movie "Ds": the anime is in
\* the result, the movie is not
AnimeChosenMovieOfSameTitleLeftOut ==
  /\ Filtered
  /\ Len(state.body.entertainmentTrends.movies) = 2
  /\ RequestSelection = <<Str(<<"a","n","i","m","e","-","D","s">>)>>
  /\ Len(state.filtered.selectedNames) > 0
  /\ state.phase = "done"

\* C13: an empty selection list gives an empty context and an empty names list, and the
\* handler then builds the generic quality-uplift instruction; the trend-guided
\* instruction is built only with a filtered context that is not empty.
EmptySelectionTakesGenericBranch ==
  (flow = "suggest" /\ state.prompt # NULL) =>
    /\ RequestSelection = <<>> =>
         /\ state.filtered.filteredContext = <<>>
         /\ state.filtered.selectedNames = <<>>
         /\ state.prompt.kind = "generic"
    /\ state.prompt.kind = "trend-guided" => state.filtered.filteredContext # <<>>

\* a request with trends but an empty selection list was answered from the generic
\* instruction
GenericInstructionForEmptySelection ==
  /\ flow = "suggest"
  /\ state.phase = "done"
  /\ state.response.status = 200
  /\ state.body.selectedTrends = Arr(<<>>)
  /\ state.body.entertainmentTrends.anime # <<>>
  /\ state.prompt.kind = "generic"

EntriesOf(selection) == { selection[k] : k \in 1..Len(selection) }

CategoryRank(category) ==
  CHOOSE c \in 1..Len(TrendCategories) : TrendCategories[c] = category

\* C14: the result of filterTrendsBySelection is the same for every list with the same
\* entries, in whatever order and however often repeated, and its blocks come in the
\* order movies, games, anime, aesthetics.
SelectionOrderIsIrrelevant ==
  (flow = "suggest" /\ state.filtered # NULL) =>
    /\ \A other \in Selections :
         EntriesOf(other) = EntriesOf(RequestSelection) =>
           filterTrendsBySelection(state.body.entertainmentTrends, other) = state.filtered
    /\ \A b \in 1..(Len(state.filtered.filteredContext) - 1) :
         CategoryRank(state.filtered.filteredContext[b].category)
           < CategoryRank(state.filtered.filteredContext[b + 1].category)

\* the selection names an aesthetic, then an anime, then a movie; the result has the
\* three blocks
ThreeBlocksFromReversedSelection ==
  /\ Filtered
  /\ RequestSelection = << Str(<<"a","e","s","t","h","e","t","i","c","-","Y","2">>),
                           Str(<<"a","n","i","m","e","-","D","s">>),
                           Str(<<"m","o","v","i","e","-","K","o">>) >>
  /\ Len(state.filtered.filteredContext) = 3

\* C15: the context has a block for a category exactly when an item of that category
\* is selected, every block lists exactly the selected items of its category, and the
\* names list is exactly the names of all selected items.
BlocksAreExactlyTheSelectedItems ==
  Filtered =>
    /\ \A category \in {"movies", "games", "anime", "aesthetics"} :
         (\E b \in 1..Len(state.filtered.filteredContext) :
            state.filtered.filteredContext[b].category = category)
           <=> Len(ChosenItems(category)) > 0
    /\ \A b \in 1..Len(state.filtered.filteredContext) :
         LET block == state.filtered.filteredContext[b]
         IN /\ block.lines = [k \in 1..Len(ChosenItems(block.category)) |->
                                TrendLine(block.category, ChosenItems(block.category)[k])]
            /\ \A c \in 1..Len(state.filtered.filteredContext) :
                 state.filtered.filteredContext[c].category = block.category => c = b
    /\ state.filtered.selectedNames =
         [k \in 1..Len(ChosenItems("movies")) |-> ChosenItems("movies")[k].title]
           \o [k \in 1..Len(ChosenItems("games")) |-> ChosenItems("games")[k].title]
           \o [k \in 1..Len(ChosenItems("anime")) |-> ChosenItems("anime")[k].title]
           \o [k \in 1..Len(ChosenItems("aesthetics")) |-> ChosenItems("aesthetics")[k].name]

\* one anime item selected out of a six-item corpus: one block, one item, one name
OneAnimeOutOfSix ==
  /\ Filtered
  /\ Len(state.body.entertainmentTrends.movies) + Len(state.body.entertainmentTrends.games)
       + Len(state.body.entertainmentTrends.anime)
       + Len(state.body.entertainmentTrends.aesthetics) = 6
  /\ state.body.entertainmentTrends.anime[1].title = <<" ","A","b">>
  /\ RequestSelection = <<Str(<<"a","n","i","m","e","-","D","s">>)>>
  /\ Len(state.filtered.filteredContext) = 1
  /\ state.filtered.filteredContext[1].category = "anime"
  /\ Len(state.filtered.filteredContext[1].lines) = 1
  /\ state.filtered.selectedNames = << <<"D","s">> >>

\* the entries of the selection that are strings and name an item of the corpus
EntriesThatMatch ==
  SelectSeq(RequestSelection,
            LAMBDA entry :
              /\ entry.tag = "string"
              /\ \E category \in {"movies", "games", "anime", "aesthetics"} :
                   \E k \in 1..Len(state.body.entertainmentTrends[category]) :
                     toLowerCase(entry.chars) =
                       toLowerCase(TrendPrefix(category)
                         \o TrendName(category, state.body.entertainmentTrends[category][k])))

\* C16: a selection entry that matches no item, or is malformed (not a string), is
\* ignored: filtering raises no error and gives the result it gives without that entry.
UnmatchedOrMalformedEntryIsIgnored ==
  (flow = "suggest" /\ state.filtered # NULL) =>
    /\ ~state.filtered.threw
    /\ state.filtered =
         filterTrendsBySelection(state.body.entertainmentTrends, EntriesThatMatch)

\* ================================================================== prompt builders
\* With flow = "prompt" the variable state holds one set of options, the text each of
\* the two client-side builders makes of it (src/lib/promptBuilder.ts), and the request
\* /api/generate serves for the same options together with the instruction it sends.
\* A prompt is the sequence of its lines; a line is a label, standing for the fixed text
\* of the template, and the value interpolated into it.

MAX_PROMPT_LENGTH == 3000

Line(label, value) == [label |-> label, value |-> value]
BlankLine == Line("", <<>>)

\* list.join(', ')
RECURSIVE Join(_)
Join(items) ==
  IF items = <<>> THEN <<>>
  ELSE IF Len(items) = 1 THEN items[1]
  ELSE items[1] \o <<",", " ">> \o Join(Tail(items))

\* the fixed fallback texts; one token each, so no typed text can equal them
OriginalSubject == <<"{original subject}">>
OriginalFunction == <<"{original function}">>
CoreElements == <<"{core identifying elements}">>
OriginalStyle == <<"{original style}">>

\* ---- rendering styles
RENDERING_STYLES ==
  {"match_seed", "3d_render", "flat", "minimalist", "glassmorphism", "neo_brutalism",
   "claymorphism", "pixel_art", "isometric"}

\* the lines of the style-preserving template, with the description interpolated
MatchSeedFragment(seedStyle) ==
  Line("style: match_seed", IF seedStyle = <<>> THEN OriginalStyle ELSE seedStyle)

\* src/lib/renderingStyles.ts
getRenderingStylePrompt(styleId, seedStyle) ==
  IF styleId = "match_seed" THEN MatchSeedFragment(seedStyle)
  ELSE IF styleId \notin RENDERING_STYLES THEN Line("style: 3d_render", <<>>)
  ELSE Line("style: " \o styleId, <<>>)

\* the copy inlined in /api/generate: styleId is a registered id or UNDEFINED
getRenderingStylePromptInlined(styleId, seedStyle) ==
  IF styleId = UNDEFINED THEN MatchSeedFragment(seedStyle)
  ELSE getRenderingStylePrompt(styleId.id, seedStyle)

\* ---- options
StyleId(id) == [tag |-> "string", id |-> id]

Dimension(enabled, value) == [enabled |-> enabled, value |-> value]

DimensionChoices == { Dimension(e, v) : e \in BOOLEAN, v \in { <<>>, <<" ">>, <<"v">> } }

defaultSelectedDimensions ==
  [style |-> Dimension(FALSE, <<>>), pose |-> Dimension(FALSE, <<>>),
   costume |-> Dimension(FALSE, <<>>), mood |-> Dimension(FALSE, <<>>)]

IconAnalyses ==
  { NULL,
    [coreSubject |-> <<"c","a","t">>, appFunction |-> <<"f">>, currentStyle |-> <<"3","D">>,
     mustPreserve |-> Arr(<< <<"e","a","r","s">>, <<"t","a","i","l">> >>)],
    [coreSubject |-> <<>>, appFunction |-> <<"f">>, currentStyle |-> <<>>,
     mustPreserve |-> Arr(<<>>)],
    [coreSubject |-> <<"c","a","t">>, appFunction |-> <<>>, currentStyle |-> <<"3","D">>,
     mustPreserve |-> Arr(<< <<>> >>)] }

\* options as the customizer can hold them: the unified flow varies everything but the
\* dimensions, the dimension flow varies the dimensions
PromptOptions ==
  [evolutionDirection : { <<"u","p">>, <<" ","u","p","<">> },
   selectedDimensions : { defaultSelectedDimensions },
   iconAnalysis : IconAnalyses,
   functionGuard : { UNDEFINED, Arr(<<>>), Arr(<< <<"l","o","g","o">>, <<"r","i","m">> >>) },
   additionalPrompt : { UNDEFINED, Str(<<" ">>), Str(<<"x">>) },
   renderingStyle : { UNDEFINED, StyleId("foo") } \cup { StyleId(id) : id \in RENDERING_STYLES }]
  \cup
  [evolutionDirection : { <<"u","p">> },
   selectedDimensions : [style : DimensionChoices,
                         pose : { Dimension(FALSE, <<"v">>), Dimension(TRUE, <<"v">>) },
                         costume : { Dimension(FALSE, <<>>), Dimension(TRUE, <<"v">>) },
                         mood : DimensionChoices],
   iconAnalysis : { NULL },
   functionGuard : { UNDEFINED },
   additionalPrompt : { UNDEFINED },
   renderingStyle : { UNDEFINED }]

\* ---- the shared parts of the templates
\* a clause that lists the function guard and then mustPreserve as well
MustPreserveConcatenated(iconAnalysis, functionGuard) ==
  LET guard == IF functionGuard = UNDEFINED THEN <<>> ELSE functionGuard.items
      preserve == IF iconAnalysis = NULL THEN <<>> ELSE iconAnalysis.mustPreserve.items
  IN IF Join(guard \o preserve) = <<>> THEN CoreElements ELSE Join(guard \o preserve)

\* functionGuard.length > 0 ? functionGuard.join(', ')
\*   : iconAnalysis?.mustPreserve?.join(', ') || placeholder
MustPreserveClause(iconAnalysis, functionGuard) ==
  LET guard == IF functionGuard = UNDEFINED THEN <<>> ELSE functionGuard.items
      preserve == IF iconAnalysis = NULL THEN <<>> ELSE Join(iconAnalysis.mustPreserve.items)
  IN IF Len(guard) > 0 THEN Join(guard)
     ELSE IF preserve = <<>> THEN CoreElements ELSE preserve

\* the template down to the list of rules
Preamble(iconAnalysis, functionGuard) ==
  << Line("evolution mode", <<>>),
     BlankLine,
     Line("core subject", IF iconAnalysis = NULL \/ iconAnalysis.coreSubject = <<>>
                          THEN OriginalSubject ELSE iconAnalysis.coreSubject),
     Line("app function", IF iconAnalysis = NULL \/ iconAnalysis.appFunction = <<>>
                          THEN OriginalFunction ELSE iconAnalysis.appFunction),
     BlankLine,
     Line("key rules", <<>>),
     Line("1. must preserve", MustPreserveClause(iconAnalysis, functionGuard)),
     Line("2. core subject recognisable", <<>>),
     Line("3. keep the hint at the function", <<>>),
     Line("4. keep the icon format", <<>>),
     BlankLine >>

\* the template from "output requirements" on
OutputRequirements(fragment) ==
  << Line("output requirements", <<>>), fragment, Line("natural evolution of the seed", <<>>) >>

SeedStyle(iconAnalysis) == IF iconAnalysis = NULL THEN <<>> ELSE iconAnalysis.currentStyle

\* promptBuilder.ts: ${additionalSection} on a line of its own
AdditionalSection(additionalPrompt) ==
  IF additionalPrompt = UNDEFINED \/ additionalPrompt.chars = <<>> THEN << BlankLine >>
  ELSE << BlankLine, Line("additional instructions", additionalPrompt.chars), BlankLine >>

\* the style the client builders ask for: renderingStyle || 'match_seed'
StyleOrMatchSeed(renderingStyle) ==
  IF renderingStyle = UNDEFINED THEN "match_seed" ELSE renderingStyle.id

\* ---- the client-side builders
\* the lines of the enabled dimensions with a value, in the order style, pose, costume,
\* mood; the fallback line when there is none
DimensionsText(selectedDimensions) ==
  LET line(d, label) == IF selectedDimensions[d].enabled /\ selectedDimensions[d].value # <<>>
                        THEN << Line(label, selectedDimensions[d].value) >> ELSE <<>>
      enabledDimensions == line("style", "style evolution") \o line("pose", "pose evolution")
                             \o line("costume", "costume evolution")
                             \o line("mood", "mood evolution")
  IN IF Len(enabledDimensions) > 0 THEN enabledDimensions
     ELSE << Line("keep the style, polish only", <<>>) >>

buildEvolutionPrompt(options) ==
  Preamble(options.iconAnalysis, options.functionGuard)
    \o << Line("selected dimensions", <<>>) >>
    \o DimensionsText(options.selectedDimensions)
    \o AdditionalSection(options.additionalPrompt)
    \o OutputRequirements(getRenderingStylePrompt(StyleOrMatchSeed(options.renderingStyle),
                                                  SeedStyle(options.iconAnalysis)))

\* a builder whose text depends on what was built before
buildUnifiedEvolutionPromptStateful(options) ==
  Preamble(options.iconAnalysis, options.functionGuard)
    \o << Line("evolution direction", <<>>), Line("direction", options.evolutionDirection) >>
    \o AdditionalSection(options.additionalPrompt)
    \o OutputRequirements(getRenderingStylePrompt(StyleOrMatchSeed(options.renderingStyle),
                                                  SeedStyle(options.iconAnalysis)))
    \o (IF state.preview = <<>> THEN <<>> ELSE << BlankLine >>)

buildUnifiedEvolutionPrompt(options) ==
  Preamble(options.iconAnalysis, options.functionGuard)
    \o << Line("evolution direction", <<>>), Line("direction", options.evolutionDirection) >>
    \o AdditionalSection(options.additionalPrompt)
    \o OutputRequirements(getRenderingStylePrompt(StyleOrMatchSeed(options.renderingStyle),
                                                  SeedStyle(options.iconAnalysis)))

\* a prompt not built yet is the empty sequence of lines
editingPrompt(options) ==
  [options |-> options, preview |-> <<>>, dimensionPreview |-> <<>>, body |-> NULL,
   sent |-> <<>>, phase |-> "editing", generations |-> 0, response |-> NULL]

\* EvolutionCustomizer's previewPrompt
previewUnified ==
  /\ Mounted("prompt")
  /\ state' = [state EXCEPT !.preview = buildUnifiedEvolutionPrompt(state.options)]
  /\ last' = Observed("buildUnifiedEvolutionPrompt", "", "", FALSE)
  /\ UNCHANGED <<flow, pending, crashed>>

previewDimensions ==
  /\ Mounted("prompt")
  /\ state' = [state EXCEPT !.dimensionPreview = buildEvolutionPrompt(state.options)]
  /\ last' = Observed("buildEvolutionPrompt", "", "", FALSE)
  /\ UNCHANGED <<flow, pending, crashed>>

\* ---- /api/generate
\* the request for the options: "unified" carries the direction, "dimensions" the
\* selected dimensions, "plain" neither (evolutionMode false)
GenerateBody(options, mode, size, hasImage) ==
  [prompt |-> options.additionalPrompt,
   size |-> size,
   referenceImage |-> IF hasImage THEN [data |-> "icon1", mimeType |-> "image/png"]
                      ELSE UNDEFINED,
   evolutionMode |-> mode # "plain",
   evolutionDirection |-> IF mode = "unified" THEN Str(options.evolutionDirection)
                          ELSE UNDEFINED,
   selectedDimensions |-> IF mode = "dimensions" THEN options.selectedDimensions
                          ELSE UNDEFINED,
   iconAnalysis |-> options.iconAnalysis,
   functionGuard |-> options.functionGuard,
   renderingStyle |-> options.renderingStyle]

\* validateRenderingStyle(body.renderingStyle) ? body.renderingStyle : undefined
validateRenderingStyle(style) == style # UNDEFINED /\ style.id \in RENDERING_STYLES

\* the text part the handler pushes, one branch per kind of request
FullPrompt(body) ==
  LET prompt == sanitizeInput(body.prompt, MAX_PROMPT_LENGTH)
      evolutionDirection == sanitizeInput(body.evolutionDirection, MAX_PROMPT_LENGTH)
      renderingStyle == IF validateRenderingStyle(body.renderingStyle)
                        THEN body.renderingStyle ELSE UNDEFINED
      additional == << BlankLine,
                       IF prompt # <<>> THEN Line("additional instructions", prompt)
                       ELSE BlankLine,
                       BlankLine >>
      seeded == OutputRequirements(
                  getRenderingStylePromptInlined(renderingStyle, SeedStyle(body.iconAnalysis)))
      preset == getRenderingStylePromptInlined(
                  IF renderingStyle = UNDEFINED THEN StyleId("3d_render") ELSE renderingStyle,
                  <<>>)
  IN IF body.evolutionMode /\ body.referenceImage # UNDEFINED /\ evolutionDirection # <<>>
     THEN Preamble(body.iconAnalysis, body.functionGuard)
            \o << Line("evolution direction", <<>>), Line("direction", evolutionDirection) >>
            \o additional \o seeded
     ELSE IF body.evolutionMode /\ body.referenceImage # UNDEFINED
             /\ body.selectedDimensions # UNDEFINED
     THEN Preamble(body.iconAnalysis, body.functionGuard)
            \o << Line("selected dimensions", <<>>) >>
            \o DimensionsText(body.selectedDimensions)
            \o additional \o seeded
     ELSE IF body.referenceImage # UNDEFINED
     THEN << Line("legacy evolution of the seed", prompt), Line("output requirements", <<>>),
             preset, Line("natural evolution of the seed", <<>>) >>
     ELSE << Line("icon from scratch", prompt), Line("output requirements", <<>>), preset >>

generateHandler(method, hasKey, mode, size, hasImage) ==
  /\ Mounted("prompt")
  /\ state.phase = "editing"
  /\ LET body == GenerateBody(state.options, mode, size, hasImage)
         st == [state EXCEPT !.body = body]
         op == "generateHandler"
     IN IF method # "POST" THEN Finish(Respond(st, 405, "Method not allowed"), op)
        ELSE IF ~hasKey THEN Finish(Respond(st, 500, "Server configuration error"), op)
        ELSE IF sanitizeInput(body.prompt, MAX_PROMPT_LENGTH) = <<>> /\ ~body.evolutionMode
        THEN Finish(Respond(st, 400, "Prompt required"), op)
        ELSE IF size \notin {"1K", "2K", "4K"}
        THEN Finish(Respond(st, 400, "Invalid size. Must be 1K, 2K, or 4K"), op)
        ELSE StartGeneration([st EXCEPT !.sent = FullPrompt(body)], op)
  /\ UNCHANGED <<flow, crashed>>

PromptNext ==
  \/ previewUnified
  \/ previewDimensions
  \/ \E method \in Methods, hasKey \in BOOLEAN, mode \in {"unified", "dimensions", "plain"},
        size \in {"1K", "8K"}, hasImage \in BOOLEAN :
       generateHandler(method, hasKey, mode, size, hasImage)
  \/ generateContentResolved
  \/ \E message \in GenerativeFailures : generateContentRejected(message)

SpecPrompt ==
  /\ \E options \in PromptOptions : InitFlow("prompt", editingPrompt(options))
  /\ [][PromptNext]_vars

\* ---- claims about the prompt builders
\* the previews built so far, and the value of their must-preserve rule
BuiltPreviews ==
  IF flow # "prompt" THEN {}
  ELSE { p \in { state.preview, state.dimensionPreview } : p # <<>> }

MustPreserveLine(prompt) ==
  CHOOSE l \in { prompt[i] : i \in 1..Len(prompt) } : l.label = "1. must preserve"

OptionGuard == IF state.options.functionGuard = UNDEFINED THEN <<>>
               ELSE state.options.functionGuard.items

OptionPreserve == IF state.options.iconAnalysis = NULL THEN <<>>
                  ELSE state.options.iconAnalysis.mustPreserve.items

\* C17: in both builders the must-preserve rule is the function guard joined, and nothing
\* of mustPreserve, when the guard has entries; without a guard it is mustPreserve joined
\* when that text is not empty; it is the placeholder when there is no guard and
\* mustPreserve is absent, empty or joins to the empty text
MustPreserveClauseSource ==
  \A p \in BuiltPreviews :
    LET clause == MustPreserveLine(p).value
    IN /\ Len(OptionGuard) > 0 => clause = Join(OptionGuard)
       /\ Len(OptionGuard) = 0 /\ Join(OptionPreserve) # <<>> => clause = Join(OptionPreserve)
       /\ Len(OptionGuard) = 0 /\ Join(OptionPreserve) = <<>> => clause = CoreElements

\* both builders ran with a guard and a mustPreserve list, and kept the guard alone
GuardWinsOverMustPreserve ==
  /\ flow = "prompt"
  /\ state.preview # <<>> /\ state.dimensionPreview # <<>>
  /\ Len(OptionGuard) > 0 /\ Len(OptionPreserve) > 0
  /\ Join(OptionPreserve) # <<>>
  /\ \A p \in BuiltPreviews : MustPreserveLine(p).value = Join(OptionGuard)

\* C17 as worded: every non-empty mustPreserve list is joined into the rule, the
\* placeholder is used only when both lists are empty or absent
NonEmptyMustPreserveAlwaysJoined ==
  \A p \in BuiltPreviews :
    LET clause == MustPreserveLine(p).value
    IN /\ Len(OptionGuard) > 0 => clause = Join(OptionGuard)
       /\ Len(OptionGuard) = 0 /\ Len(OptionPreserve) > 0 => clause = Join(OptionPreserve)
       /\ Len(OptionGuard) = 0 /\ Len(OptionPreserve) = 0 => clause = CoreElements

\* the lines buildEvolutionPrompt put between the heading and the next blank line
DimensionLabels ==
  [style |-> "style evolution", pose |-> "pose evolution",
   costume |-> "costume evolution", mood |-> "mood evolution"]

DimensionOrder == << "style", "pose", "costume", "mood" >>

EmittedDimensionLines(prompt) ==
  SelectSeq(prompt, LAMBDA l : l.label = "keep the style, polish only"
                               \/ \E d \in DOMAIN DimensionLabels : l.label = DimensionLabels[d])

\* the dimensions that are enabled with a value that is not blank, in the fixed order
QualifyingDimensions(selectedDimensions) ==
  SelectSeq(DimensionOrder,
            LAMBDA d : selectedDimensions[d].enabled /\ ~IsBlank(selectedDimensions[d].value))

\* C18: buildEvolutionPrompt emits one line per dimension that is enabled with a value
\* non-empty after trimming, in the order style, pose, costume, mood, and the single
\* fallback line when no dimension qualifies
DimensionLinesAreTheTrimmedNonEmptyOnes ==
  flow = "prompt" /\ state.dimensionPreview # <<>> =>
    LET qualifying == QualifyingDimensions(state.options.selectedDimensions)
        emitted == EmittedDimensionLines(state.dimensionPreview)
    IN IF qualifying = <<>>
       THEN emitted = << Line("keep the style, polish only", <<>>) >>
       ELSE emitted = [k \in 1..Len(qualifying) |->
                         Line(DimensionLabels[qualifying[k]],
                              state.options.selectedDimensions[qualifying[k]].value)]

\* the same with the test the code makes: enabled and a value of any characters
DimensionLinesAreTheNonEmptyOnes ==
  flow = "prompt" /\ state.dimensionPreview # <<>> =>
    LET sel == state.options.selectedDimensions
        qualifying == SelectSeq(DimensionOrder, LAMBDA d : sel[d].enabled /\ sel[d].value # <<>>)
        emitted == EmittedDimensionLines(state.dimensionPreview)
    IN IF qualifying = <<>>
       THEN emitted = << Line("keep the style, polish only", <<>>) >>
       ELSE emitted = [k \in 1..Len(qualifying) |->
                         Line(DimensionLabels[qualifying[k]], sel[qualifying[k]].value)]

\* the rendering-style line of a prompt
StyleLabels == { "style: " \o id : id \in RENDERING_STYLES }

StyleLine(prompt) ==
  CHOOSE l \in { prompt[i] : i \in 1..Len(prompt) } : l.label \in StyleLabels

\* what the registry rule gives for a style id and an icon analysis
ResolvedStyle(renderingStyle, iconAnalysis) ==
  IF renderingStyle.id \notin RENDERING_STYLES THEN Line("style: 3d_render", <<>>)
  ELSE IF renderingStyle.id = "match_seed"
  THEN Line("style: match_seed",
            IF SeedStyle(iconAnalysis) = <<>> THEN OriginalStyle ELSE SeedStyle(iconAnalysis))
  ELSE Line("style: " \o renderingStyle.id, <<>>)

\* C19: wherever a prompt is built for a given style id, in the two builders and in the
\* generate handler, its style fragment is the 3D render preset for an unregistered id,
\* the style-preserving template with currentStyle or the placeholder for match_seed,
\* and the id's own fragment for every other registered id
StyleResolvedByRegistryEverywhere ==
  flow = "prompt" /\ state.options.renderingStyle # UNDEFINED =>
    /\ \A p \in BuiltPreviews :
         StyleLine(p) = ResolvedStyle(state.options.renderingStyle, state.options.iconAnalysis)
    /\ state.sent # <<>> =>
         StyleLine(state.sent) = ResolvedStyle(state.body.renderingStyle, state.body.iconAnalysis)

\* the same for the two builders alone
StyleResolvedByRegistryInBuilders ==
  flow = "prompt" /\ state.options.renderingStyle # UNDEFINED =>
    \A p \in BuiltPreviews :
      StyleLine(p) = ResolvedStyle(state.options.renderingStyle, state.options.iconAnalysis)

\* the handler built the unified instruction for the request
UnifiedInstructionSent ==
  /\ flow = "prompt"
  /\ state.sent # <<>>
  /\ state.body.evolutionMode
  /\ state.body.referenceImage # UNDEFINED
  /\ state.body.evolutionDirection # UNDEFINED

\* C20: for the same direction, icon analysis, function guard, additional prompt and
\* rendering style, the preview built by buildUnifiedEvolutionPrompt is the text the
\* generate handler sends to the generative service
PreviewIsTheInstructionSent ==
  UnifiedInstructionSent /\ state.preview # <<>> => state.sent = state.preview

\* the two texts agree when there is an additional prompt, the handler's sanitizing
\* changes neither it nor the direction, and the style is absent or registered
PreviewIsTheInstructionSentForCleanInputs ==
  UnifiedInstructionSent /\ state.preview # <<>>
    /\ state.options.additionalPrompt # UNDEFINED
    /\ sanitizeInput(state.options.additionalPrompt, MAX_PROMPT_LENGTH)
         = state.options.additionalPrompt.chars
    /\ sanitizeInput(Str(state.options.evolutionDirection), MAX_PROMPT_LENGTH)
         = state.options.evolutionDirection
    /\ (state.options.renderingStyle = UNDEFINED
          \/ state.options.renderingStyle.id \in RENDERING_STYLES)
    => state.sent = state.preview

\* ---- claims about the builders as functions
BuilderOps == { "buildUnifiedEvolutionPrompt", "buildEvolutionPrompt" }

MaxChars == 4
MaxCut == 3

SanitizeAlphabet == { " ", "a", "<", ">" }

\* what a caller may pass: strings, the empty one included, and values that are no string
SanitizeInputs ==
  { Str(chars) : chars \in SeqsUpTo(SanitizeAlphabet, MaxChars) }
    \cup { NULL, UNDEFINED, [tag |-> "number"], Arr(<<>>) }

calling(input, maxLength) ==
  [input |-> input, maxLength |-> maxLength, output |-> <<>>, returned |-> FALSE]

sanitizeInputCalled ==
  /\ Mounted("sanitize")
  /\ ~state.returned
  /\ state' = [state EXCEPT !.output = sanitizeInput(state.input, state.maxLength),
                            !.returned = TRUE]
  /\ last' = Observed("sanitizeInput", "", "", FALSE)
  /\ UNCHANGED <<flow, pending, crashed>>

SanitizeNext == sanitizeInputCalled

SpecSanitize ==
  /\ \E input \in SanitizeInputs, maxLength \in 0..MaxCut :
       InitFlow("sanitize", calling(input, maxLength))
  /\ [][SanitizeNext]_vars

Sanitized == flow = "sanitize" /\ state.returned

\* C22: for every input, string or not, and every maxLen >= 0 the output of sanitize
\* holds neither < nor > and is at most maxLen characters long
SanitizedHasNoAnglesAndFits ==
  Sanitized =>
    /\ \A k \in 1..Len(state.output) : state.output[k] \notin { "<", ">" }
    /\ Len(state.output) <= state.maxLength

\* a string with an angle bracket, longer than maxLen after trimming, came out full length
LongMarkupCutToMaxLength ==
  /\ Sanitized
  /\ state.input.tag = "string"
  /\ \E k \in 1..Len(state.input.chars) : state.input.chars[k] \in { "<", ">" }
  /\ Len(Trim(state.input.chars)) > state.maxLength
  /\ state.maxLength > 0
  /\ Len(state.output) = state.maxLength

\* the part of chars between its first and its last character that is no whitespace
Trimmed(chars) ==
  LET inner == { k \in 1..Len(chars) : chars[k] \notin Whitespace }
  IN IF inner = {} THEN <<>>
     ELSE LET lo == CHOOSE k \in inner : \A j \in inner : k <= j
              hi == CHOOSE k \in inner : \A j \in inner : j <= k
          IN [k \in 1..(hi - lo + 1) |-> chars[lo + k - 1]]

Truncated(chars, maxLen) ==
  [k \in 1..(IF Len(chars) < maxLen THEN Len(chars) ELSE maxLen) |-> chars[k]]

\* C23: sanitize never throws; it returns the empty string for an input that is no
\* string or is empty, and for a string the result of trimming, then cutting to maxLen
\* characters, then removing every < and >
SanitizeIsTrimCutStrip ==
  Sanitized =>
    /\ ~crashed
    /\ state.input.tag # "string" => state.output = <<>>
    /\ state.input.tag = "string" /\ state.input.chars = <<>> => state.output = <<>>
    /\ state.input.tag = "string" =>
         state.output = SelectSeq(Truncated(Trimmed(state.input.chars), state.maxLength),
                                  LAMBDA c : c # "<" /\ c # ">")

\* a padded string whose cut falls among angle brackets: removing them before the cut
\* would have kept more
CutBeforeRemovalShows ==
  /\ Sanitized
  /\ state.input.tag = "string"
  /\ Trim(state.input.chars) # state.input.chars
  /\ Len(Trim(state.input.chars)) > state.maxLength
  /\ Len(state.output) < state.maxLength
  /\ Len(StripAngles(Trim(state.input.chars))) > Len(state.output)

\* ---- api/utils/validators.ts: validateScreenshot, filterValidScreenshots
MaxList == 3
MaxCount == 2

ALLOWED_IMAGE_TYPES == { "image/png", "image/jpeg", "image/webp", "image/gif" }

Mime(text) == [tag |-> "string", text |-> text]

\* an object of the request body; a field it lacks reads as undefined
Screenshot(data, mimeType) == [tag |-> "object", data |-> data, mimeType |-> mimeType]

\* entries a request may carry in its screenshots array
ScreenshotEntries ==
  { Screenshot(Str(<<"p">>), Mime("image/png")),
    Screenshot(Str(<<"g">>), Mime("image/gif")),
    Screenshot(Str(<<"s">>), Mime("image/svg+xml")),
    Screenshot([tag |-> "number"], Mime("image/png")),
    Screenshot(Str(<<"m">>), UNDEFINED),
    NULL,
    Str(<<"p">>) }

validateScreenshot(screenshot) ==
  /\ screenshot.tag = "object"
  /\ screenshot.data.tag = "string"
  /\ screenshot.mimeType.tag = "string"
  /\ screenshot.mimeType.text \in ALLOWED_IMAGE_TYPES

\* a filter that validates the whole list and cuts afterwards
filterValidScreenshotsThenCut(screenshots, maxCount) ==
  LET valid == SelectSeq(screenshots, validateScreenshot)
  IN SubSeq(valid, 1, IF Len(valid) < maxCount THEN Len(valid) ELSE maxCount)

\* for (const s of screenshots.slice(0, maxCount)) if (validateScreenshot(s)) push(s)
filterValidScreenshots(screenshots, maxCount) ==
  SelectSeq(SubSeq(screenshots, 1, IF Len(screenshots) < maxCount THEN Len(screenshots)
                                                                  ELSE maxCount),
            validateScreenshot)

filtering(screenshots, maxCount) ==
  [screenshots |-> screenshots, maxCount |-> maxCount, output |-> <<>>, returned |-> FALSE]

filterValidScreenshotsCalled ==
  /\ Mounted("filter")
  /\ ~state.returned
  /\ state' = [state EXCEPT !.output = filterValidScreenshots(state.screenshots, state.maxCount),
                            !.returned = TRUE]
  /\ last' = Observed("filterValidScreenshots", "", "", FALSE)
  /\ UNCHANGED <<flow, pending, crashed>>

FilterNext == filterValidScreenshotsCalled

SpecFilter ==
  /\ \E screenshots \in SeqsUpTo(ScreenshotEntries, MaxList), maxCount \in 0..MaxCount :
       InitFlow("filter", filtering(screenshots, maxCount))
  /\ [][FilterNext]_vars

\* the positions among the first maxCount whose entry is an object with a string data
\* field and an allowed mime type
AcceptablePositions ==
  { i \in 1..Len(state.screenshots) :
      /\ i <= state.maxCount
      /\ state.screenshots[i].tag = "object"
      /\ state.screenshots[i].data.tag = "string"
      /\ state.screenshots[i].mimeType.tag = "string"
      /\ state.screenshots[i].mimeType.text
           \in { "image/png", "image/jpeg", "image/webp", "image/gif" } }

\* C24: filterValidItems(list, maxCount) returns, in the original order, exactly the
\* entries among the first maxCount that are objects with a string data field and an
\* allowed mime type: never more than maxCount, never a disallowed type, never an entry
\* from beyond the first maxCount, and it returns for the empty and the oversized list
FilterKeepsTheValidAmongTheFirst ==
  flow = "filter" /\ state.returned =>
    /\ ~crashed
    /\ Len(state.output) = Cardinality(AcceptablePositions)
    /\ Len(state.output) <= state.maxCount
    /\ \A k \in 1..Len(state.output) :
         \E i \in AcceptablePositions :
           /\ Cardinality({ j \in AcceptablePositions : j <= i }) = k
           /\ state.output[k] = state.screenshots[i]

\* an oversized list with a rejected entry among the first maxCount and a valid one
\* beyond them: the valid one beyond is not returned
ValidEntryBeyondMaxCountLeftOut ==
  /\ flow = "filter" /\ state.returned
  /\ Len(state.screenshots) > state.maxCount
  /\ validateScreenshot(state.screenshots[Len(state.screenshots)])
  /\ \E i \in 1..state.maxCount : ~validateScreenshot(state.screenshots[i])
  /\ Len(state.output) = 1
  /\ state.maxCount = 2

\* ---- /api/briefs: validateAnalysis, validateTrends and the handler's gate
Object == [tag |-> "object"]

AnalysisPayload(vertical, demographics, features, competitors, psychographicProfile) ==
  [tag |-> "object", vertical |-> vertical, demographics |-> demographics,
   features |-> features, competitors |-> competitors,
   psychographicProfile |-> psychographicProfile]

\* what body.analysis may be: no object at all, or an object whose fields are of the
\* required type, of another type, or missing
AnalysisPayloads ==
  { NULL, UNDEFINED, Str(<<"v">>) }
    \cup { AnalysisPayload(v, d, f, c, p) :
             v \in { Str(<<"v">>), [tag |-> "number"], UNDEFINED },
             d \in { Str(<<"d">>), UNDEFINED },
             f \in { Arr(<<>>), Str(<<"f">>), UNDEFINED },
             c \in { Arr(<<>>), NULL },
             p \in { Str(<<"p">>), Object, NULL, UNDEFINED, [tag |-> "number"] } }

TrendsPayload(subcultureOverlap, visualTrends, sentimentKeywords, entertainmentNarrative) ==
  [tag |-> "object", subcultureOverlap |-> subcultureOverlap, visualTrends |-> visualTrends,
   sentimentKeywords |-> sentimentKeywords, entertainmentNarrative |-> entertainmentNarrative]

TrendsPayloads ==
  { NULL,
    TrendsPayload(Arr(<<>>), Arr(<<>>), Arr(<<>>), Arr(<<>>)),
    TrendsPayload(Arr(<<>>), Arr(<<>>), UNDEFINED, Arr(<<>>)),
    TrendsPayload(Str(<<"s">>), Arr(<<>>), Arr(<<>>), Arr(<<>>)) }

\* typeof x === 'object' && x !== null
IsObject(x) == x.tag \in { "object", "array" }

\* a validator that does not look at competitors
validateAnalysisLoose(analysis) ==
  /\ analysis.tag = "object"
  /\ analysis.vertical.tag = "string"
  /\ analysis.demographics.tag = "string"
  /\ analysis.features.tag = "array"
  /\ (analysis.psychographicProfile.tag = "string" \/ IsObject(analysis.psychographicProfile))

\* an array passes typeof === 'object' but has none of the fields, so it fails like any
\* value that is no plain object
validateAnalysis(analysis) ==
  /\ analysis.tag = "object"
  /\ analysis.vertical.tag = "string"
  /\ analysis.demographics.tag = "string"
  /\ analysis.features.tag = "array"
  /\ analysis.competitors.tag = "array"
  /\ (analysis.psychographicProfile.tag = "string" \/ IsObject(analysis.psychographicProfile))

validateTrends(trends) ==
  /\ trends.tag = "object"
  /\ trends.subcultureOverlap.tag = "array"
  /\ trends.visualTrends.tag = "array"
  /\ trends.sentimentKeywords.tag = "array"
  /\ trends.entertainmentNarrative.tag = "array"

receivedBriefsRequest(body) ==
  [handler |-> "briefs", phase |-> "received", body |-> body, generations |-> 0,
   response |-> NULL]

briefsHandler(method, hasKey) ==
  /\ Mounted("briefsApi")
  /\ state.phase = "received"
  /\ LET op == "briefsHandler"
     IN IF method # "POST" THEN Finish(Respond(state, 405, "Method not allowed"), op)
        ELSE IF ~hasKey THEN Finish(Respond(state, 500, "Server configuration error"), op)
        ELSE IF ~validateAnalysis(state.body.analysis)
        THEN Finish(Respond(state, 400, "Invalid analysis data"), op)
        ELSE IF ~validateTrends(state.body.trends)
        THEN Finish(Respond(state, 400, "Invalid trends data"), op)
        ELSE StartGeneration(state, op)
  /\ UNCHANGED <<flow, crashed>>

BriefsApiNext ==
  \/ \E method \in Methods, hasKey \in BOOLEAN : briefsHandler(method, hasKey)
  \/ generateContentResolved
  \/ \E message \in GenerativeFailures : generateContentRejected(message)

SpecBriefsApi ==
  /\ \E analysis \in AnalysisPayloads, trends \in TrendsPayloads :
       InitFlow("briefsApi", receivedBriefsRequest([analysis |-> analysis, trends |-> trends]))
  /\ [][BriefsApiNext]_vars

\* the typing the analysis must have: vertical and demographics strings, features and
\* competitors arrays, psychographicProfile a string or a non-null object
AnalysisWellTyped ==
  LET a == state.body.analysis
  IN a.tag = "object"
     /\ a.vertical.tag = "string" /\ a.demographics.tag = "string"
     /\ a.features.tag = "array" /\ a.competitors.tag = "array"
     /\ a.psychographicProfile.tag \in { "string", "object", "array" }

TrendsWellTyped ==
  LET t == state.body.trends
  IN t.tag = "object"
     /\ \A field \in { t.subcultureOverlap, t.visualTrends, t.sentimentKeywords,
                       t.entertainmentNarrative } : field.tag = "array"

\* C25: validateAnalysis accepts exactly the objects with string vertical and
\* demographics, array features and competitors and a psychographicProfile that is a
\* string or a non-null object; the briefs handler answers a rejected analysis with
\* 'Invalid analysis data' and makes no generative call for a rejected analysis or
\* trends payload
BriefsGateOnAnalysisAndTrends ==
  flow = "briefsApi" =>
    /\ validateAnalysis(state.body.analysis) <=> AnalysisWellTyped
    /\ ~AnalysisWellTyped \/ ~TrendsWellTyped =>
         state.generations = 0 /\ pending = <<>>
    /\ state.response # NULL =>
         /\ state.response.error = "Invalid analysis data" => ~AnalysisWellTyped
         /\ ~AnalysisWellTyped =>
              state.response.error \in { "Invalid analysis data", "Method not allowed",
                                         "Server configuration error" }

\* an analysis that lacks nothing but the competitors array was refused with 400
AnalysisWithoutCompetitorsRefused ==
  /\ flow = "briefsApi"
  /\ state.body.analysis.tag = "object"
  /\ state.body.analysis.competitors = NULL
  /\ validateAnalysisLoose(state.body.analysis)
  /\ TrendsWellTyped
  /\ state.response = [status |-> 400, error |-> "Invalid analysis data"]
  /\ state.generations = 0

\* ---- the suggestion and its edited copy
\* C26: a successful suggestion call leaves editedSuggestion equal to
\* unifiedSuggestion.evolutionDirection; updateEditedSuggestion changes editedSuggestion
\* and nothing else, so the stored suggestion is always one the service returned and
\* "reset to suggested" restores its direction; the direction passed to the generation
\* call is the editedSuggestion of the moment
EditedCopyLeavesSuggestionAlone ==
  /\ [](flow = "evolution" /\ state.unifiedSuggestion # NULL =>
          \E r \in SuggestionResponses : r.suggestion = state.unifiedSuggestion)
  /\ [][flow = "evolution" =>
          /\ last'.op = "evolutionSuggestionsResolved" /\ ~crashed' =>
               state'.editedSuggestion = state'.unifiedSuggestion.evolutionDirection
          /\ last'.op = "updateEditedSuggestion" =>
               /\ state' = [state EXCEPT !.editedSuggestion = state'.editedSuggestion]
               /\ pending' = pending
          /\ last'.op = "handleReset" =>
               /\ state'.unifiedSuggestion = state.unifiedSuggestion
               /\ state'.editedSuggestion = state.unifiedSuggestion.evolutionDirection
          /\ last'.op = "generateEvolution" /\ last'.started =>
               pending'[Len(pending')].args.evolutionDirection = state.editedSuggestion
     ]_vars

\* a generation call was issued with an edited direction while the suggestion as
\* returned is still stored
GeneratedFromEditedCopy ==
  /\ flow = "evolution"
  /\ last.op = "generateEvolution" /\ last.started
  /\ state.unifiedSuggestion # NULL
  /\ state.editedSuggestion = <<"u","p">>
  /\ state.unifiedSuggestion.evolutionDirection = <<"g","o">>
  /\ pending[Len(pending)].args.evolutionDirection = <<"u","p">>

\* ---- rendering the briefs
ImageCallsFor(briefId) ==
  { i \in 1..Len(pending) : pending[i].kind = "image" /\ pending[i].briefId = briefId }

\* C27: a failed generateImage or regenerateImage does not leave its brief in the LOADING
\* state, under every interleaving with other generation calls for the same brief: a
\* brief is LOADING only while a generation call for it is in flight, and a failure that
\* ends the last such call leaves the brief with an image or with none
FailedRenderLeavesNoBriefLoading ==
  flow = "legacy" /\ last.op = "imageRejected" =>
    \A k \in 1..Len(state.briefs) :
      state.briefs[k].generatedImage = "LOADING" => ImageCallsFor(state.briefs[k].id) # {}

UsableEvolutionInputs(body) ==
  /\ body.evolutionMode
  /\ body.referenceImage # UNDEFINED
  /\ \/ sanitizeInput(body.evolutionDirection, MAX_PROMPT_LENGTH) # <<>>
     \/ body.selectedDimensions # UNDEFINED

\* C30: the generate handler calls the generative service only with a non-empty
\* instruction: a request whose sanitized prompt is empty and which carries no usable
\* evolution inputs gets no generative call, and neither does one with an invalid size
GenerativeCallNeedsAnInstruction ==
  flow = "prompt" /\ state.body # NULL =>
    /\ sanitizeInput(state.body.prompt, MAX_PROMPT_LENGTH) = <<>>
         /\ ~UsableEvolutionInputs(state.body)
         => state.generations = 0
    /\ state.body.size \notin { "1K", "2K", "4K" } => state.generations = 0

\* the part of it the handler does enforce: no call without a prompt outside
\* evolution mode, and none for an invalid size
GenerativeCallNeedsPromptOrEvolutionMode ==
  flow = "prompt" /\ state.body # NULL =>
    /\ sanitizeInput(state.body.prompt, MAX_PROMPT_LENGTH) = <<>> /\ ~state.body.evolutionMode
         => state.generations = 0
    /\ state.body.size \notin { "1K", "2K", "4K" } => state.generations = 0

====
